---- MODULE Spec2Model ----
(***************************************************************************)
(* klear-api: order execution across mock exchanges, clearing (netting,    *)
(* margin, validation gates) and T+2 settlement with its background        *)
(* processor.                                                              *)
(*                                                                         *)
(* Units.  Go's float64 and time.Time are modelled by exact integers:      *)
(*   quantities   in thousandths of a unit          (QtyScale)             *)
(*   prices       in thousands of dollars, so Quantity * Price is dollars  *)
(*   margins      in thousandths of a dollar        (MarginScale)          *)
(*   time         in slots of 12 hours, slot 0 = 00:00 of day 0, UTC =     *)
(*                local time                                               *)
(*   rand draws   in the unit of the value they are compared with          *)
(***************************************************************************)
EXTENDS Integers, Sequences, FiniteSets, TLC

VARIABLES
    orders,        \* table orders           (types.Order)
    executions,    \* table executions       (types.Execution, with its Fills)
    idempotency,   \* table idempotency_records
    clearings,     \* table clearings
    nettings,      \* table trade_nettings
    settlements,   \* table settlements
    now,           \* time.Now(), in slots
    ticks,         \* firings of the settlement processor's ticker so far
    calls,         \* in-flight CreateOrder calls of the request goroutines
    rt,            \* the router's locals while one order is routed
    vc,            \* the validator's argument and result while one amount is validated
    proc           \* the settlement processor's loop: its context, its ticker's channel
                   \* and whether Start has returned

vars == <<orders, executions, idempotency, clearings, nettings, settlements,
          now, ticks, calls, rt, vc, proc>>

store == <<orders, executions, idempotency, clearings, nettings, settlements>>

-----------------------------------------------------------------------------
(* Bounds of the model *)

MaxOrders == 2
MaxExecutions == 2
MaxClearings == 2
MaxSettlements == 2
MaxTime == 5
MaxRouted == 1
MaxTicks == 2
MaxNetTrades == 2
MaxCents == 30

-----------------------------------------------------------------------------
(* Scales and program constants *)

QtyScale == 1000
MarginScale == 1000
SlotsPerDay == 2
SlotMinutes == 720

MaxRouteAttempts == 3
IdempotencyTTL == 2
NettingWindow == 2
SettlementDelayOneDay == 1 * SlotsPerDay
SettlementDelay == 4

MarketOpenMinute == 90
MarketCloseMinute == 1380

NoID == <<"", 0>>
OrderID(n) == <<"ORD", n>>
ExecutionID(n) == <<"EXE", n>>
ClearingID(n) == <<"CLR", n>>
NettingID(n) == <<"NET", n>>
SettlementID(n) == <<"STL", n>>

Abs(x) == IF x < 0 THEN -x ELSE x
Min(a, b) == IF a <= b THEN a ELSE b

\* floor(a * b / c) for a >= 0, b >= 0, c > 0 without forming a * b
MulDiv(a, b, c) == (a \div c) * b + ((a % c) * b) \div c

Range(s) == {s[i] : i \in 1..Len(s)}

RECURSIVE SumSeq(_)
SumSeq(s) == IF s = <<>> THEN 0 ELSE Head(s) + SumSeq(Tail(s))

-----------------------------------------------------------------------------
(* internal/exchange/exchange.go *)

\* LiquidityFactor in tenths, SuccessRate in percent, FeeRate in 1/10000
mockExchanges ==
    << [ID |-> "EXCH1", LiquidityFactor |-> 9, SuccessRate |-> 95, FeeRate |-> 10],
       [ID |-> "EXCH2", LiquidityFactor |-> 7, SuccessRate |-> 90, FeeRate |-> 8],
       [ID |-> "EXCH3", LiquidityFactor |-> 5, SuccessRate |-> 85, FeeRate |-> 5],
       [ID |-> "EXCH4", LiquidityFactor |-> 3, SuccessRate |-> 75, FeeRate |-> 3] >>

Weight(ex) == ex.LiquidityFactor * ex.SuccessRate

RECURSIVE CumWeight(_)
\* currentWeight after the first k exchanges
CumWeight(k) == IF k = 0 THEN 0 ELSE CumWeight(k - 1) + Weight(mockExchanges[k])

totalWeight == CumWeight(Len(mockExchanges))

\* GetBestExchange taking the first exchange whose cumulative weight is above
\* the choice
GetBestExchangeAbove(choice) ==
    LET hit == {k \in 1..Len(mockExchanges) : CumWeight(k) > choice}
    IN  IF hit # {}
        THEN mockExchanges[CHOOSE k \in hit : \A j \in hit : k <= j]
        ELSE mockExchanges[1]

\* choice is rand.Float64() * totalWeight
GetBestExchange(choice) ==
    LET hit == {k \in 1..Len(mockExchanges) : CumWeight(k) >= choice}
    IN  IF hit # {}
        THEN mockExchanges[CHOOSE k \in hit : \A j \in hit : k <= j]
        ELSE mockExchanges[1]

\* One draw of the random numbers an attempt uses:
\*   choice  rand.Float64()*totalWeight of GetBestExchange
\*   succ    rand.Float64() against SuccessRate, in percent
\*   pct     100 * (1 + (rand.Float64()*0.04 - 0.02)), the price variance
\*   liq     rand.Float64() against LiquidityFactor, in tenths
NoFill == [ExchangeID |-> "", Price |-> 0, Quantity |-> 0, FeeRate |-> 0, FeeAmount |-> 0]

\* an exchange whose partial fill is the asked quantity and the liquidity share
ExchangeExecuteOrderOverfill(e, order, d) ==
    IF d.succ > e.SuccessRate
    THEN [err |-> "execution failed on exchange", fill |-> NoFill]
    ELSE LET priceVariance == (order.Price * d.pct) \div 100
             partial == d.liq > e.LiquidityFactor
             executedQty == IF partial
                            THEN order.Quantity + (order.Quantity * e.LiquidityFactor) \div 10
                            ELSE order.Quantity
         IN  [err |-> "",
              fill |-> [ExchangeID |-> e.ID,
                        Price |-> priceVariance,
                        Quantity |-> executedQty,
                        FeeRate |-> e.FeeRate,
                        FeeAmount |-> priceVariance * executedQty * e.FeeRate]]

\* Exchange.ExecuteOrder: [err, fill]
ExchangeExecuteOrder(e, order, d) ==
    IF d.succ > e.SuccessRate
    THEN [err |-> "execution failed on exchange", fill |-> NoFill]
    ELSE LET priceVariance == (order.Price * d.pct) \div 100
             partial == d.liq > e.LiquidityFactor
             executedQty == IF partial
                            THEN (order.Quantity * e.LiquidityFactor) \div 10
                            ELSE order.Quantity
         IN  IF partial /\ executedQty = 0
             THEN [err |-> "insufficient liquidity on exchange", fill |-> NoFill]
             ELSE [err |-> "",
                   fill |-> [ExchangeID |-> e.ID,
                             Price |-> priceVariance,
                             Quantity |-> executedQty,
                             FeeRate |-> e.FeeRate,
                             FeeAmount |-> priceVariance * executedQty * e.FeeRate]]

\* the locals of ExecuteOrderAcrossExchanges before its loop
RouteStart(order) ==
    [remainingQty |-> order.Quantity, fills |-> <<>>,
     totalExecutedQty |-> 0, weightedPrice |-> 0, i |-> 0]

\* the loop condition without the test of the remaining quantity
RouteContinuesAnyQuantity(st) == st.i < MaxRouteAttempts

\* the loop condition without the attempt budget
RouteContinuesUnbounded(st) == st.remainingQty > 0

\* the loop condition  i < 3 && remainingQty > 0  (the break repeats its 2nd half)
RouteContinues(st) == st.i < MaxRouteAttempts /\ st.remainingQty > 0

\* one iteration of the loop that adds the quantity asked of the exchange,
\* not the quantity it filled, to the executed total
RouteAttemptAsked(order, st, d) ==
    LET exchange == GetBestExchange(d.choice)
        attemptOrder == [order EXCEPT !.Quantity = st.remainingQty]
        r == ExchangeExecuteOrder(exchange, attemptOrder, d)
    IN  IF r.err # ""
        THEN [st EXCEPT !.i = @ + 1]
        ELSE [remainingQty |-> st.remainingQty - r.fill.Quantity,
              fills |-> Append(st.fills, r.fill),
              totalExecutedQty |-> st.totalExecutedQty + attemptOrder.Quantity,
              weightedPrice |-> st.weightedPrice + r.fill.Price * r.fill.Quantity,
              i |-> st.i + 1]

\* one iteration of the loop
RouteAttempt(order, st, d) ==
    LET exchange == GetBestExchange(d.choice)
        attemptOrder == [order EXCEPT !.Quantity = st.remainingQty]
        r == ExchangeExecuteOrder(exchange, attemptOrder, d)
    IN  IF r.err # ""
        THEN [st EXCEPT !.i = @ + 1]
        ELSE [remainingQty |-> st.remainingQty - r.fill.Quantity,
              fills |-> Append(st.fills, r.fill),
              totalExecutedQty |-> st.totalExecutedQty + r.fill.Quantity,
              weightedPrice |-> st.weightedPrice + r.fill.Price * r.fill.Quantity,
              i |-> st.i + 1]

RECURSIVE RouteLoop(_, _, _)
RouteLoop(order, st, draws) ==
    IF RouteContinues(st)
    THEN RouteLoop(order, RouteAttempt(order, st, draws[st.i + 1]), draws)
    ELSE st

NoExecution ==
    [ExecutionID |-> NoID, OrderID |-> NoID, TotalQuantity |-> 0,
     AveragePrice |-> [num |-> 0, den |-> 1], Side |-> "", Status |-> "",
     Fills |-> <<>>, CreatedAt |-> 0]

\* the return without the test for an empty list of fills
RouteResultEmpty(order, st, t) ==
    [err |-> "",
     execution |-> [ExecutionID |-> NoID,
                    OrderID |-> order.OrderID,
                    TotalQuantity |-> st.totalExecutedQty,
                    AveragePrice |-> [num |-> st.weightedPrice, den |-> 1],
                    Side |-> order.Side,
                    Status |-> "COMPLETED",
                    Fills |-> st.fills,
                    CreatedAt |-> t]]

\* what ExecuteOrderAcrossExchanges returns after its loop: [err, execution].
\* AveragePrice = weightedPrice / totalExecutedQty is kept as that fraction.
RouteResult(order, st, t) ==
    IF Len(st.fills) = 0
    THEN [err |-> "failed to execute order on any exchange", execution |-> NoExecution]
    ELSE [err |-> "",
          execution |-> [ExecutionID |-> NoID,
                         OrderID |-> order.OrderID,
                         TotalQuantity |-> st.totalExecutedQty,
                         AveragePrice |-> [num |-> st.weightedPrice,
                                           den |-> st.totalExecutedQty],
                         Side |-> order.Side,
                         Status |-> "COMPLETED",
                         Fills |-> st.fills,
                         CreatedAt |-> t]]

ExecuteOrderAcrossExchanges(order, draws, t) ==
    RouteResult(order, RouteLoop(order, RouteStart(order), draws), t)

\* float product  averagePrice * quantity
PriceTimes(avg, qty) == MulDiv(avg.num, qty, avg.den)

-----------------------------------------------------------------------------
(* internal/trading/database.go, internal/trading/trading.go *)

Lookup(table, field, id) == {i \in 1..Len(table) : table[i][field] = id}

\* gorm First: the row with the lowest primary key among those found
First(found) == CHOOSE i \in found : \A j \in found : i <= j

\* the zero IdempotencyRecord GetIdempotencyRecord returns when none is found;
\* its zero ExpiresAt is before every time
ZeroRecord ==
    [IdempotencyKey |-> "", ResourceID |-> NoID, ResourceType |-> "", ExpiresAt |-> -1]

GetIdempotencyRecord(key) ==
    LET found == Lookup(idempotency, "IdempotencyKey", key)
    IN  IF found = {} THEN ZeroRecord ELSE idempotency[First(found)]

\* err == nil && record.ExpiresAt.After(time.Now()) && record != nil
\* the expiry test that finds every record expired
RecordNeverLive(record) == record.ExpiresAt > now + IdempotencyTTL

RecordIsLive(record) == record.ExpiresAt > now

\* a transaction that creates a resource row and its idempotency record; the
\* unique index on idempotency_key fails the second insert and the rollback
\* drops the first: [err, table, idempotency]
\* the two inserts without a transaction: the resource row stays when the
\* idempotency row is refused
CreateWithoutTransaction(table, row, id, resourceType, key) ==
    IF Lookup(idempotency, "IdempotencyKey", key) # {}
    THEN [err |-> "UNIQUE constraint failed: idempotency_records.idempotency_key",
          table |-> Append(table, row), idempotency |-> idempotency]
    ELSE [err |-> "",
          table |-> Append(table, row),
          idempotency |-> Append(idempotency,
                                 [IdempotencyKey |-> key,
                                  ResourceID |-> id,
                                  ResourceType |-> resourceType,
                                  ExpiresAt |-> now + IdempotencyTTL])]

CreateWithIdempotency(table, row, id, resourceType, key) ==
    IF Lookup(idempotency, "IdempotencyKey", key) # {}
    THEN [err |-> "UNIQUE constraint failed: idempotency_records.idempotency_key",
          table |-> table, idempotency |-> idempotency]
    ELSE [err |-> "",
          table |-> Append(table, row),
          idempotency |-> Append(idempotency,
                                 [IdempotencyKey |-> key,
                                  ResourceID |-> id,
                                  ResourceType |-> resourceType,
                                  ExpiresAt |-> now + IdempotencyTTL])]

CreateOrderWithIdempotency(order, key) ==
    CreateWithIdempotency(orders, order, order.OrderID, "order", key)

CreateExecutionWithIdempotency(execution, key) ==
    CreateWithIdempotency(executions, execution, execution.ExecutionID, "execution", key)

\* UpdateOrder saving the copy an attempt worked on, its quantity used up
UpdateOrderAttempt(o, order) == [orders EXCEPT ![o] = [order EXCEPT !.Quantity = 0]]

\* Database.UpdateOrder: gorm Save writes every column of the row
UpdateOrder(o, order) == [orders EXCEPT ![o] = order]

\* the order CreateOrder prepares from the request body
NewOrder(in) ==
    [OrderID |-> OrderID(Len(orders) + 1),
     ClientID |-> in.ClientID, Symbol |-> in.Symbol, Side |-> in.Side,
     OrderType |-> in.OrderType, Quantity |-> in.Quantity, Price |-> in.Price,
     Status |-> "PENDING", CreatedAt |-> now, UpdatedAt |-> now]

\* Service.CreateOrder as one call: [err, id, orders, idempotency]
CreateOrderResult(in, key) ==
    LET record == GetIdempotencyRecord(key)
    IN  IF RecordIsLive(record)
        THEN LET found == Lookup(orders, "OrderID", record.ResourceID)
             IN  [err |-> IF found = {} THEN "order not found" ELSE "",
                  id |-> IF found = {} THEN NoID ELSE orders[First(found)].OrderID,
                  orders |-> orders, idempotency |-> idempotency]
        ELSE LET order == NewOrder(in)
                 tx == CreateOrderWithIdempotency(order, key)
             IN  [err |-> tx.err,
                  id |-> IF tx.err = "" THEN order.OrderID ELSE NoID,
                  orders |-> tx.table, idempotency |-> tx.idempotency]

\* Service.ExecuteOrder as one call:
\* [err, id, routed, executions, idempotency, orders]; routed tells whether
\* exchange.ExecuteOrderAcrossExchanges was called
ExecuteOrderResult(orderID, key, draws) ==
    LET record == GetIdempotencyRecord(key)
        same == [executions |-> executions, idempotency |-> idempotency, orders |-> orders]
    IN  IF RecordIsLive(record)
        THEN LET found == Lookup(executions, "ExecutionID", record.ResourceID)
             IN  [err |-> IF found = {} THEN "record not found" ELSE "",
                  id |-> IF found = {} THEN NoID ELSE executions[First(found)].ExecutionID,
                  routed |-> FALSE] @@ same
        ELSE LET found == Lookup(orders, "OrderID", orderID)
             IN  IF found = {}
                 THEN [err |-> "", id |-> NoID, routed |-> FALSE] @@ same
                 ELSE LET o == First(found)
                          order == orders[o]
                          r == ExecuteOrderAcrossExchanges(order, draws, now)
                          execution == [r.execution EXCEPT
                                           !.ExecutionID = ExecutionID(Len(executions) + 1)]
                          tx == CreateExecutionWithIdempotency(execution, key)
                      IN  IF r.err # ""
                          THEN [err |-> r.err, id |-> NoID, routed |-> TRUE] @@ same
                          ELSE IF tx.err # ""
                          THEN [err |-> tx.err, id |-> NoID, routed |-> TRUE] @@ same
                          ELSE [err |-> "", id |-> execution.ExecutionID, routed |-> TRUE,
                                executions |-> tx.table,
                                idempotency |-> tx.idempotency,
                                orders |-> UpdateOrder(o, [order EXCEPT
                                                              !.Status = "FILLED",
                                                              !.UpdatedAt = now])]

-----------------------------------------------------------------------------
(* internal/clearing/database.go *)

Day(t) == t \div SlotsPerDay
MinuteOfDay(t) == (t % SlotsPerDay) * SlotMinutes

\* now.Before(marketOpen) || now.After(marketClose)
OutsideMarketHours(t) ==
    MinuteOfDay(t) < MarketOpenMinute \/ MinuteOfDay(t) > MarketCloseMinute

\* the parent order row of an execution, 0 when there is none
OrderOf(exec) ==
    LET found == Lookup(orders, "OrderID", exec.OrderID)
    IN  IF found = {} THEN 0 ELSE First(found)

\* JOIN orders ... WHERE orders.symbol = ? AND executions.created_at > ?
GetTradesForNetting(symbol, windowStart) ==
    {e \in 1..Len(executions) :
        /\ OrderOf(executions[e]) # 0
        /\ orders[OrderOf(executions[e])].Symbol = symbol
        /\ executions[e].CreatedAt > windowStart}

\* the client's COMPLETED executions created on the current UTC day
DailyExecutions(clientID) ==
    {e \in 1..Len(executions) :
        /\ OrderOf(executions[e]) # 0
        /\ orders[OrderOf(executions[e])].ClientID = clientID
        /\ Day(executions[e].CreatedAt) = Day(now)
        /\ executions[e].Status = "COMPLETED"}

RECURSIVE SumOver(_, _)
\* the sum of f[e] over the finite set S
SumOver(S, f) ==
    IF S = {} THEN 0
    ELSE LET e == CHOOSE x \in S : TRUE IN f[e] + SumOver(S \ {e}, f)

SignedQuantity(e) ==
    LET side == orders[OrderOf(executions[e])].Side
    IN  IF side = "BUY" THEN executions[e].TotalQuantity
        ELSE IF side = "SELL" THEN -executions[e].TotalQuantity
        ELSE 0

ExecutionValue(e) ==
    PriceTimes(executions[e].AveragePrice, executions[e].TotalQuantity)

GetDailyNetPosition(clientID) ==
    LET S == DailyExecutions(clientID)
    IN  SumOver(S, [e \in S |-> SignedQuantity(e)])

GetDailyTradingVolume(clientID) ==
    LET S == DailyExecutions(clientID)
    IN  SumOver(S, [e \in S |-> ExecutionValue(e)])

\* risk limits of validateClearing, in dollars, units and percent
maxDailyNetPosition == 1000000
maxMarginUtilization == 80
availableMargin == 1000000
positionLimit == 500000
dailyTradingLimit == 5000000
concentrationThreshold == 1000
riskThreshold == 80000000

\* Service.calculateTradeNetting: [err, netting].  order is the triggering
\* execution's order; n numbers the uuid drawn for the attempt.
\* the sign of every side
NettingSignUnsigned(side) == 1

\* the loop of calculateTradeNetting adds a BUY and subtracts any other side
NettingSign(side) == IF side = "BUY" THEN 1 ELSE -1

\* the margin with the concentration multiplier applied from the threshold on
NettingMarginFromThreshold(netSettlement, netQuantity) ==
    IF Abs(netQuantity) >= concentrationThreshold * QtyScale
    THEN netSettlement * 138
    ELSE netSettlement * 120

\* margin = netSettlement * 0.10, then * 1.2, then * 1.15 for a large position,
\* in thousandths of a dollar: 0.10 * 1.2 = 120/1000, 0.10 * 1.2 * 1.15 = 138/1000
\* a margin with a floor of one dollar
NettingMarginWithFloor(netSettlement, netQuantity) ==
    IF netSettlement = 0 THEN MarginScale ELSE netSettlement * 120

NettingMargin(netSettlement, netQuantity) ==
    LET base == netSettlement * 100
        \* base * 1.2; base is a multiple of 5
        volatile == base + base \div 5
    IN  IF Abs(netQuantity) > concentrationThreshold * QtyScale
        \* volatile * 1.15; volatile is a multiple of 20
        THEN volatile + 3 * (volatile \div 20)
        ELSE volatile

calculateTradeNetting(order, n) ==
    LET windowStart == now - NettingWindow
        trades == GetTradesForNetting(order.Symbol, windowStart)
        missing == {e \in trades : OrderOf(executions[e]) = 0}
        signed(e) == NettingSign(orders[OrderOf(executions[e])].Side)
        netQuantity == SumOver(trades,
                               [e \in trades |-> signed(e) * executions[e].TotalQuantity])
        netAmount == SumOver(trades, [e \in trades |-> signed(e) * ExecutionValue(e)])
        netSettlement == Abs(netAmount)
        netMargin == NettingMargin(netSettlement, netQuantity)
    IN  IF missing # {}
        THEN [err |-> "order not found for execution", netting |-> <<>>]
        ELSE [err |-> "",
              netting |-> [NettingID |-> NettingID(n),
                           Symbol |-> order.Symbol,
                           WindowStart |-> windowStart,
                           WindowEnd |-> now,
                           NetQuantity |-> netQuantity,
                           NetAmount |-> netAmount,
                           NetSettlement |-> netSettlement,
                           NetMargin |-> netMargin,
                           Status |-> "COMPLETED",
                           OriginalTrades |-> {executions[e].ExecutionID : e \in trades}]]

\* calculateMockRiskScore weighting the margin utilization by 0.5
calculateMockRiskScoreMarginHalf(clearing, order) ==
    LET positionRisk == Min(Abs(clearing.NetPositions), 1000000 * QtyScale)
        mockVolatility == IF order.OrderType = "MARKET" THEN 18 ELSE 15
        riskScore == positionRisk \div 25
                     + MulDiv(clearing.MarginRequired, 5, 100)
                     + mockVolatility * 300000
    IN  Min(riskScore, 100000000)

\* Service.calculateMockRiskScore, in units of 1e-8
calculateMockRiskScore(clearing, order) ==
    LET positionRisk == Min(Abs(clearing.NetPositions), 1000000 * QtyScale)
        mockVolatility == IF order.OrderType = "MARKET" THEN 18 ELSE 15
        riskScore == positionRisk \div 25
                     + MulDiv(clearing.MarginRequired, 3, 100)
                     + mockVolatility * 300000
    IN  Min(riskScore, 100000000)

\* Service.validateClearing: the reason of the first failing gate, "" when none
\* the first gate accepting only amounts below the limit
validateSettlementAmountBelow(amount, limit) ==
    IF amount <= 0
    THEN "invalid settlement amount"
    ELSE IF amount >= limit
    THEN "settlement amount exceeds position limit"
    ELSE ""

\* validateClearing's first gate: the settlement amount is positive and within
\* the limit, both in the same unit
validateSettlementAmount(amount, limit) ==
    IF amount <= 0
    THEN "invalid settlement amount"
    ELSE IF amount > limit
    THEN "settlement amount exceeds position limit"
    ELSE ""

\* gate 4's projected volume without the day's executions
projectedDailyVolumeOfTradeOnly(clearing, order) == clearing.SettlementAmount

\* validateClearing's projected figures of gates 3 and 4
projectedNetPosition(clearing, order) ==
    Abs(GetDailyNetPosition(order.ClientID) + clearing.NetPositions)

projectedDailyVolume(clearing, order) ==
    GetDailyTradingVolume(order.ClientID) + clearing.SettlementAmount

\* validateClearing testing the margin before the settlement amount
validateClearingMarginFirst(clearing, order) ==
    IF clearing.MarginRequired <= 0
    THEN "invalid margin requirement"
    ELSE IF clearing.MarginRequired
              > ((maxMarginUtilization * availableMargin) \div 100) * MarginScale
    THEN "margin utilization exceeds maximum allowed"
    ELSE IF validateSettlementAmount(clearing.SettlementAmount, positionLimit) # ""
    THEN validateSettlementAmount(clearing.SettlementAmount, positionLimit)
    ELSE IF Abs(GetDailyNetPosition(order.ClientID) + clearing.NetPositions)
              > maxDailyNetPosition * QtyScale
    THEN "projected net position would exceed daily limit"
    ELSE IF GetDailyTradingVolume(order.ClientID) + clearing.SettlementAmount
              > dailyTradingLimit
    THEN "projected daily volume would exceed limit"
    ELSE IF OutsideMarketHours(now)
    THEN "clearing can only be processed during market hours"
    ELSE IF calculateMockRiskScore(clearing, order) > riskThreshold
    THEN "risk score exceeds acceptable threshold"
    ELSE ""

validateClearing(clearing, order) ==
    IF validateSettlementAmount(clearing.SettlementAmount, positionLimit) # ""
    THEN validateSettlementAmount(clearing.SettlementAmount, positionLimit)
    ELSE IF clearing.MarginRequired <= 0
    THEN "invalid margin requirement"
    ELSE IF clearing.MarginRequired
              > ((maxMarginUtilization * availableMargin) \div 100) * MarginScale
    THEN "margin utilization exceeds maximum allowed"
    ELSE IF projectedNetPosition(clearing, order) > maxDailyNetPosition * QtyScale
    THEN "projected net position would exceed daily limit"
    ELSE IF projectedDailyVolume(clearing, order) > dailyTradingLimit
    THEN "projected daily volume would exceed limit"
    ELSE IF OutsideMarketHours(now)
    THEN "clearing can only be processed during market hours"
    ELSE IF calculateMockRiskScore(clearing, order) > riskThreshold
    THEN "risk score exceeds acceptable threshold"
    ELSE ""

\* SaveNettingResult writing the netting row outside the transaction: the row
\* stays when the clearing row or the commit fails
SaveNettingResultNoRollback(netting, clearing, fault) ==
    IF fault \in {"begin", "netting"}
    THEN [err |-> "failed to save netting record",
          nettings |-> nettings, clearings |-> clearings]
    ELSE IF fault \in {"clearing", "commit"}
    THEN [err |-> "failed to update clearing record",
          nettings |-> Append(nettings, netting), clearings |-> clearings]
    ELSE [err |-> "",
          nettings |-> Append(nettings, netting),
          clearings |-> Append(clearings, clearing)]

\* Database.SaveNettingResult: one transaction that inserts the netting row and
\* saves the clearing row (an insert: the row has no primary key yet).  fault
\* names the statement the store fails, "" when none: [err, nettings, clearings]
SaveNettingResult(netting, clearing, fault) ==
    LET rollback == [nettings |-> nettings, clearings |-> clearings]
        commit == [nettings |-> Append(nettings, netting),
                   clearings |-> Append(clearings, clearing)]
    IN  IF fault = "begin"
        THEN [err |-> "failed to start transaction"] @@ rollback
        ELSE IF fault = "netting"
        THEN [err |-> "failed to save netting record"] @@ rollback
        ELSE IF fault = "clearing"
        THEN [err |-> "failed to update clearing record"] @@ rollback
        ELSE IF fault = "commit"
        THEN [err |-> "commit failed"] @@ rollback
        ELSE [err |-> ""] @@ commit

\* CreateClearing storing the row as it was first built
CreateClearingPending(clearing) ==
    Append(clearings, [clearing EXCEPT !.ClearingStatus = "PENDING"])

\* CreateClearing losing the row
CreateClearingDropped(clearing) == clearings

\* CreateClearing inserting the row twice
CreateClearingTwice(clearing) == Append(Append(clearings, clearing), clearing)

\* Database.CreateClearing
CreateClearing(clearing) == Append(clearings, clearing)

\* processClearingCalculations leaving the clearing with the netting's values
processClearingCalculationsNetted(clearing, execution) == clearing

\* Service.processClearingCalculations before it validates
processClearingCalculations(clearing, execution) ==
    [clearing EXCEPT
        !.SettlementAmount = PriceTimes(execution.AveragePrice, execution.TotalQuantity),
        !.NetPositions = IF execution.Side = "SELL"
                         THEN -execution.TotalQuantity
                         ELSE execution.TotalQuantity]

\* Service.ClearTrade as one call: [err, gate, id, clearings, nettings]; gate is
\* the reason validateClearing gave, "" when it was not reached or passed.  The
\* uuids of the attempt's CLR_ and NET_ identifiers are numbered alike.
ClearTradeResult(tradeID, fault) ==
    LET n == Len(clearings) + 1
        same == [clearings |-> clearings, nettings |-> nettings]
        pending == [ClearingID |-> ClearingID(n), TradeID |-> tradeID,
                    ClearingStatus |-> "PENDING", MarginRequired |-> 0,
                    NetPositions |-> 0, SettlementAmount |-> 0]
        foundE == Lookup(executions, "ExecutionID", tradeID)
    IN  IF foundE = {}
        THEN [err |-> "failed to fetch execution details", gate |-> "", id |-> NoID] @@ same
        ELSE
        LET execution == executions[First(foundE)]
            foundO == Lookup(orders, "OrderID", execution.OrderID)
        IN  IF foundO = {}
            THEN [err |-> "failed to fetch order details", gate |-> "", id |-> NoID] @@ same
            ELSE
            LET order == orders[First(foundO)]
                net == calculateTradeNetting(order, n)
            IN  IF net.err # ""
                THEN [err |-> "netting calculation failed", gate |-> "", id |-> NoID,
                      clearings |-> CreateClearing([pending EXCEPT !.ClearingStatus = "FAILED"]),
                      nettings |-> nettings]
                ELSE
                LET netted == [pending EXCEPT
                                  !.NetPositions = net.netting.NetQuantity,
                                  !.SettlementAmount = net.netting.NetSettlement,
                                  !.MarginRequired = net.netting.NetMargin]
                    clearing == processClearingCalculations(netted, execution)
                    reason == validateClearing(clearing, order)
                    saved == SaveNettingResult(net.netting,
                                               [clearing EXCEPT !.ClearingStatus = "CLEARED"],
                                               fault)
                IN  IF reason # ""
                    THEN [err |-> "clearing validation failed: " \o reason,
                          gate |-> reason, id |-> NoID,
                          clearings |-> CreateClearing([clearing EXCEPT
                                                           !.ClearingStatus = "FAILED"]),
                          nettings |-> nettings]
                    ELSE IF saved.err # ""
                    THEN [err |-> "failed to save netting and clearing results",
                          gate |-> "", id |-> NoID,
                          clearings |-> saved.clearings, nettings |-> saved.nettings]
                    ELSE [err |-> "", gate |-> "", id |-> clearing.ClearingID,
                          clearings |-> saved.clearings, nettings |-> saved.nettings]

-----------------------------------------------------------------------------
(* internal/settlement: service, models.go, processor.go *)

\* Service.validateSettlement
validateSettlement(settlement) ==
    IF settlement.FinalAmount <= 0
    THEN "invalid settlement amount"
    ELSE IF OutsideMarketHours(now)
    THEN "settlement can only be processed during market hours"
    ELSE ""

\* Database.GetClearingByTradeID: the row, 0 when there is none
GetClearingByTradeID(tradeID) ==
    LET found == Lookup(clearings, "TradeID", tradeID)
    IN  IF found = {} THEN 0 ELSE First(found)

\* SettleTrade taking a zero clearing when the trade has none
SettleTradeResultDefaulted(tradeID) ==
    LET foundE == Lookup(executions, "ExecutionID", tradeID)
        none(msg) == [err |-> msg, id |-> NoID, settlements |-> settlements]
    IN  IF foundE = {} THEN none("failed to fetch execution details")
        ELSE
        LET execution == executions[First(foundE)]
            foundO == Lookup(orders, "OrderID", execution.OrderID)
            c == GetClearingByTradeID(tradeID)
        IN  IF foundO = {} THEN none("failed to fetch order details")
            ELSE
            LET order == orders[First(foundO)]
                settlement ==
                    [SettlementID |-> SettlementID(Len(settlements) + 1),
                     TradeID |-> tradeID,
                     ClientID |-> order.ClientID,
                     SettlementStatus |-> "PENDING",
                     SettlementDate |-> now + SettlementDelay,
                     FinalAmount |-> (IF c = 0 THEN 0 ELSE clearings[c].SettlementAmount),
                     ClearingID |-> (IF c = 0 THEN NoID ELSE clearings[c].ClearingID),
                     ExecutionID |-> execution.ExecutionID,
                     ExecutedQuantity |-> execution.TotalQuantity \div QtyScale,
                     CreatedAt |-> now,
                     UpdatedAt |-> now]
                reason == validateSettlement(settlement)
            IN  IF reason # ""
                THEN [err |-> reason, id |-> NoID,
                      settlements |-> Append(settlements,
                                             [settlement EXCEPT !.SettlementStatus = "FAILED"])]
                ELSE [err |-> "", id |-> settlement.SettlementID,
                      settlements |-> Append(settlements, settlement)]

\* Service.SettleTrade as one call: [err, id, settlements]
SettleTradeResult(tradeID) ==
    LET foundE == Lookup(executions, "ExecutionID", tradeID)
        none(msg) == [err |-> msg, id |-> NoID, settlements |-> settlements]
    IN  IF foundE = {} THEN none("failed to fetch execution details")
        ELSE
        LET execution == executions[First(foundE)]
            foundO == Lookup(orders, "OrderID", execution.OrderID)
            c == GetClearingByTradeID(tradeID)
        IN  IF foundO = {} THEN none("failed to fetch order details")
            ELSE IF c = 0 THEN none("failed to fetch clearing details")
            ELSE
            LET order == orders[First(foundO)]
                settlement ==
                    [SettlementID |-> SettlementID(Len(settlements) + 1),
                     TradeID |-> tradeID,
                     ClientID |-> order.ClientID,
                     SettlementStatus |-> "PENDING",
                     SettlementDate |-> now + SettlementDelay,
                     FinalAmount |-> clearings[c].SettlementAmount,
                     ClearingID |-> clearings[c].ClearingID,
                     ExecutionID |-> execution.ExecutionID,
                     ExecutedQuantity |-> execution.TotalQuantity \div QtyScale,
                     CreatedAt |-> now,
                     UpdatedAt |-> now]
                reason == validateSettlement(settlement)
            IN  IF reason # ""
                THEN [err |-> reason, id |-> NoID,
                      settlements |-> Append(settlements,
                                             [settlement EXCEPT !.SettlementStatus = "FAILED"])]
                ELSE [err |-> "", id |-> settlement.SettlementID,
                      settlements |-> Append(settlements, settlement)]

\* Database.GetPendingSettlements
GetPendingSettlements ==
    {i \in 1..Len(settlements) : settlements[i].SettlementStatus = "PENDING"}

\* the loop's body without the test of the settlement date
ProcessSettlementNoDateCheck(s, verified) ==
    IF s.SettlementStatus = "PENDING"
    THEN [s EXCEPT !.SettlementStatus = "SETTLING", !.UpdatedAt = now]
    ELSE IF s.SettlementStatus = "SETTLING"
    THEN [s EXCEPT !.SettlementStatus = IF verified THEN "SETTLED" ELSE @,
                   !.UpdatedAt = now]
    ELSE IF s.SettlementStatus = "FAILED" THEN s
    ELSE [s EXCEPT !.UpdatedAt = now]

\* the loop's body marking a due settlement FAILED when its verification fails
ProcessSettlementFailing(s, verified) ==
    IF now < s.SettlementDate THEN s
    ELSE IF s.SettlementStatus = "PENDING"
    THEN [s EXCEPT !.SettlementStatus = IF verified THEN "SETTLING" ELSE "FAILED",
                   !.UpdatedAt = now]
    ELSE IF s.SettlementStatus = "SETTLING"
    THEN [s EXCEPT !.SettlementStatus = IF verified THEN "SETTLED" ELSE "FAILED",
                   !.UpdatedAt = now]
    ELSE IF s.SettlementStatus = "FAILED" THEN s
    ELSE [s EXCEPT !.UpdatedAt = now]

\* the body of the processor's loop for one fetched settlement; verified is what
\* verifySettlement returns for it at this tick
ProcessSettlement(s, verified) ==
    IF now < s.SettlementDate THEN s
    ELSE IF s.SettlementStatus = "PENDING"
    THEN [s EXCEPT !.SettlementStatus = "SETTLING", !.UpdatedAt = now]
    ELSE IF s.SettlementStatus = "SETTLING"
    THEN [s EXCEPT !.SettlementStatus = IF verified THEN "SETTLED" ELSE @,
                   !.UpdatedAt = now]
    ELSE IF s.SettlementStatus = "FAILED" THEN s
    ELSE [s EXCEPT !.UpdatedAt = now]

\* Processor.processPendingSettlements: the settlements table after one scan;
\* verify is the set of rows verifySettlement would accept at this tick
processPendingSettlements(verify) ==
    LET fetched == GetPendingSettlements
    IN  [i \in 1..Len(settlements) |->
            IF i \in fetched
            THEN ProcessSettlement(settlements[i], i \in verify)
            ELSE settlements[i]]

\* Processor.processPendingSettlements with a failing store: [err, settlements].
\* fetchFails tells that GetPendingSettlements returns an error, failed is the
\* set of rows whose UpdateSettlement returns one; the loop logs a failed
\* update and goes on, and the row keeps what the store holds
processPendingSettlementsResult(verify, fetchFails, failed) ==
    IF fetchFails
    THEN [err |-> "failed to fetch pending settlements", settlements |-> settlements]
    ELSE [err |-> "",
          settlements |->
              [i \in 1..Len(settlements) |->
                  IF i \in GetPendingSettlements /\ i \notin failed
                  THEN ProcessSettlement(settlements[i], i \in verify)
                  ELSE settlements[i]]]

-----------------------------------------------------------------------------
(* Inputs *)

Clients == {"c1"}
Keys == {"k1", "k2"}
Procs == {"g1", "g2"}

\* request bodies of POST /orders
OrderInputs ==
    { [ClientID |-> "c1", Symbol |-> "AAA", Side |-> "BUY", OrderType |-> "MARKET",
       Quantity |-> 10 * QtyScale, Price |-> 50],
      [ClientID |-> "c1", Symbol |-> "AAA", Side |-> "SELL", OrderType |-> "LIMIT",
       Quantity |-> 10 * QtyScale, Price |-> 50] }

\* the random numbers of the three routing attempts, as the requests of the
\* pipeline meet them: no attempt succeeds, a full fill below the reference
\* price, a full fill above it after a failed attempt
DrawFail == [choice |-> 0, succ |-> 99, pct |-> 100, liq |-> 2]
DrawLow == [choice |-> 0, succ |-> 50, pct |-> 98, liq |-> 2]
DrawHigh == [choice |-> 0, succ |-> 50, pct |-> 102, liq |-> 2]
PipelineDraws ==
    { <<DrawFail, DrawFail, DrawFail>>,
      <<DrawLow, DrawFail, DrawFail>>,
      <<DrawFail, DrawHigh, DrawFail>> }

\* the random numbers of one routing attempt, over all exchanges
RouteDraws ==
    [choice : {0, 900, 1500, 2000}, succ : {50, 80, 99},
     pct : {98, 100, 102}, liq : {2, 6, 8, 10}]

\* orders handed to the router
RouteOrders ==
    { [OrderID |-> OrderID(1), ClientID |-> "c1", Symbol |-> "AAA", Side |-> side,
       OrderType |-> "MARKET", Quantity |-> q * QtyScale, Price |-> 50,
       Status |-> "PENDING", CreatedAt |-> 0, UpdatedAt |-> 0]
      : side \in {"BUY", "SELL"}, q \in -1..MaxRouted }

\* statements of SaveNettingResult the store may fail
Faults == {"", "begin", "netting", "clearing", "commit"}

TradeIDs == {ExecutionID(n) : n \in 1..MaxExecutions}
OrderIDs == {OrderID(n) : n \in 1..MaxOrders}

-----------------------------------------------------------------------------
(* State machine *)

\* a request goroutine between calls; err and id are what its last call returned
IdleCall == [pc |-> "idle", in |-> <<>>, key |-> "", resource |-> NoID,
             err |-> "", id |-> NoID]
\* the processor after  go settlementProcessor.Start(processorCtx): the context
\* is live, no tick is waiting in ticker.C, Start is at its select
StartedProcessor == [ctx |-> "live", tick |-> FALSE, pc |-> "select", todo |-> <<>>]
IdleValidator == [pc |-> "idle", amount |-> 0, reason |-> ""]
IdleRouter == [pc |-> "idle", order |-> <<>>, st |-> <<>>, err |-> "", execution |-> NoExecution]

Init ==
    /\ orders = <<>>
    /\ executions = <<>>
    /\ idempotency = <<>>
    /\ clearings = <<>>
    /\ nettings = <<>>
    /\ settlements = <<>>
    /\ now = 0
    /\ ticks = 0
    /\ calls = [p \in Procs |-> IdleCall]
    /\ rt = IdleRouter
    /\ vc = IdleValidator
    /\ proc = StartedProcessor

\* POST /orders
CreateOrder(in, key) ==
    LET r == CreateOrderResult(in, key)
    IN  /\ Len(r.orders) <= MaxOrders
        /\ orders' = r.orders
        /\ idempotency' = r.idempotency
        /\ UNCHANGED <<executions, clearings, nettings, settlements, now, ticks, calls, rt, vc, proc>>

\* POST /internal/execution/:order_id
ExecuteOrder(orderID, key, draws) ==
    LET r == ExecuteOrderResult(orderID, key, draws)
    IN  /\ Len(r.executions) <= MaxExecutions
        /\ executions' = r.executions
        /\ idempotency' = r.idempotency
        /\ orders' = r.orders
        /\ UNCHANGED <<clearings, nettings, settlements, now, ticks, calls, rt, vc, proc>>

\* POST /internal/clearing/:trade_id
\* a ClearTrade that also marks the order of the trade it cleared
ClearTradeMarkingOrder(tradeID, fault) ==
    LET r == ClearTradeResult(tradeID, fault)
    IN  /\ Len(r.clearings) <= MaxClearings
        /\ clearings' = r.clearings
        /\ nettings' = r.nettings
        /\ orders' = [o \in 1..Len(orders) |->
                        IF /\ r.err = ""
                           /\ \E e \in 1..Len(executions) :
                                 /\ executions[e].ExecutionID = tradeID
                                 /\ executions[e].OrderID = orders[o].OrderID
                        THEN [orders[o] EXCEPT !.Status = "CLEARED"]
                        ELSE orders[o]]
        /\ UNCHANGED <<executions, idempotency, settlements, now, ticks, calls, rt, vc, proc>>

ClearTrade(tradeID, fault) ==
    LET r == ClearTradeResult(tradeID, fault)
    IN  /\ Len(r.clearings) <= MaxClearings
        /\ clearings' = r.clearings
        /\ nettings' = r.nettings
        /\ UNCHANGED <<orders, executions, idempotency, settlements, now, ticks, calls, rt, vc, proc>>

\* POST /internal/settlement/:trade_id
SettleTrade(tradeID) ==
    LET r == SettleTradeResult(tradeID)
    IN  /\ Len(r.settlements) <= MaxSettlements
        /\ settlements' = r.settlements
        /\ UNCHANGED <<orders, executions, idempotency, clearings, nettings, now, ticks, calls, rt, vc, proc>>

\* one firing of the processor's ticker: Start's  case <-ticker.C
Scan(verify) ==
    /\ ticks < MaxTicks
    /\ ticks' = ticks + 1
    /\ settlements' = processPendingSettlements(verify)
    /\ UNCHANGED <<orders, executions, idempotency, clearings, nettings, now, calls, rt, vc, proc>>

\* twelve hours pass
AdvanceTime ==
    /\ now < MaxTime
    /\ now' = now + 1
    /\ UNCHANGED <<store, ticks, calls, rt, vc, proc>>

Next ==
    \/ \E in \in OrderInputs, key \in Keys : CreateOrder(in, key)
    \/ \E orderID \in OrderIDs, key \in Keys, draws \in PipelineDraws :
          ExecuteOrder(orderID, key, draws)
    \/ \E tradeID \in TradeIDs : ClearTrade(tradeID, "")
    \/ \E tradeID \in TradeIDs : SettleTrade(tradeID)
    \/ \E verify \in SUBSET (1..Len(settlements)) : Scan(verify)
    \/ AdvanceTime

Spec == Init /\ [][Next]_vars

-----------------------------------------------------------------------------
(* Store failures inside SaveNettingResult *)

\* one firing of the ticker while the store fails some statements of the scan
ScanFault(verify, fetchFails, failed) ==
    /\ ticks < MaxTicks
    /\ ticks' = ticks + 1
    /\ settlements' = processPendingSettlementsResult(verify, fetchFails, failed).settlements
    /\ UNCHANGED <<orders, executions, idempotency, clearings, nettings, now, calls, rt, vc, proc>>

NextFault ==
    \/ \E in \in OrderInputs, key \in Keys : CreateOrder(in, key)
    \/ \E orderID \in OrderIDs, key \in Keys, draws \in PipelineDraws :
          ExecuteOrder(orderID, key, draws)
    \/ \E tradeID \in TradeIDs, fault \in Faults : ClearTrade(tradeID, fault)
    \/ AdvanceTime

SpecFault == Init /\ [][NextFault]_vars

\* the whole pipeline and the processor over a store that may fail the
\* statements of SaveNettingResult and of the scan
NextStoreFault ==
    \/ \E in \in OrderInputs, key \in Keys : CreateOrder(in, key)
    \/ \E orderID \in OrderIDs, key \in Keys, draws \in PipelineDraws :
          ExecuteOrder(orderID, key, draws)
    \/ \E tradeID \in TradeIDs, fault \in Faults : ClearTrade(tradeID, fault)
    \/ \E tradeID \in TradeIDs : SettleTrade(tradeID)
    \/ \E verify \in SUBSET (1..Len(settlements)) :
          \E fetchFails \in BOOLEAN :
             \E failed \in SUBSET (1..Len(settlements)) :
                ScanFault(verify, fetchFails, failed)
    \/ AdvanceTime

SpecStoreFault == Init /\ [][NextStoreFault]_vars

-----------------------------------------------------------------------------
(* Concurrent CreateOrder calls: each request goroutine runs Service.CreateOrder
   statement by statement; a store statement or transaction is one step *)

\* record, err := s.db.GetIdempotencyRecord(key), and the test of the record
CreateOrderCheck(p, in, key) ==
    LET record == GetIdempotencyRecord(key)
    IN  /\ calls[p].pc = "idle"
        /\ calls' = [calls EXCEPT ![p] =
                        [pc |-> IF RecordIsLive(record) THEN "replay" ELSE "create",
                         in |-> in, key |-> key, resource |-> record.ResourceID,
                         err |-> "", id |-> NoID]]
        /\ UNCHANGED <<store, now, ticks, rt, vc, proc>>

\* existingOrder, err := s.db.GetOrder(record.ResourceID) and the return
CreateOrderReplay(p) ==
    LET found == Lookup(orders, "OrderID", calls[p].resource)
    IN  /\ calls[p].pc = "replay"
        /\ calls' = [calls EXCEPT ![p] =
                        [IdleCall EXCEPT
                            !.key = calls[p].key,
                            !.err = IF found = {} THEN "order not found" ELSE "",
                            !.id = IF found = {} THEN NoID
                                   ELSE orders[First(found)].OrderID]]
        /\ UNCHANGED <<store, now, ticks, rt, vc, proc>>

\* return s.db.CreateOrderWithIdempotency(order, idempotencyKey)
CreateOrderCommit(p) ==
    LET order == NewOrder(calls[p].in)
        tx == CreateOrderWithIdempotency(order, calls[p].key)
    IN  /\ calls[p].pc = "create"
        /\ Len(tx.table) <= MaxOrders
        /\ orders' = tx.table
        /\ idempotency' = tx.idempotency
        /\ calls' = [calls EXCEPT ![p] =
                        [IdleCall EXCEPT
                            !.key = calls[p].key,
                            !.err = tx.err,
                            !.id = IF tx.err = "" THEN order.OrderID ELSE NoID]]
        /\ UNCHANGED <<executions, clearings, nettings, settlements, now, ticks, rt, vc, proc>>

NextConc ==
    \/ \E p \in Procs, in \in OrderInputs, key \in Keys : CreateOrderCheck(p, in, key)
    \/ \E p \in Procs : CreateOrderReplay(p)
    \/ \E p \in Procs : CreateOrderCommit(p)
    \/ AdvanceTime

SpecConc == Init /\ [][NextConc]_vars

-----------------------------------------------------------------------------
(* The router alone: ExecuteOrderAcrossExchanges on one order, one loop
   iteration a step *)

InitRoute ==
    /\ orders = <<>>
    /\ executions = <<>>
    /\ idempotency = <<>>
    /\ clearings = <<>>
    /\ nettings = <<>>
    /\ settlements = <<>>
    /\ now = 0
    /\ ticks = 0
    /\ calls = [p \in Procs |-> IdleCall]
    /\ \E order \in RouteOrders :
          rt = [pc |-> "loop", order |-> order, st |-> RouteStart(order),
                err |-> "", execution |-> NoExecution]
    /\ vc = IdleValidator
    /\ proc = StartedProcessor

RouteStep(d) ==
    /\ rt.pc = "loop"
    /\ RouteContinues(rt.st)
    /\ rt' = [rt EXCEPT !.st = RouteAttempt(rt.order, rt.st, d)]
    /\ UNCHANGED <<store, now, ticks, calls, vc, proc>>

RouteReturn ==
    LET r == RouteResult(rt.order, rt.st, now)
    IN  /\ rt.pc = "loop"
        /\ ~RouteContinues(rt.st)
        /\ rt' = [rt EXCEPT !.pc = "done", !.err = r.err, !.execution = r.execution]
        /\ UNCHANGED <<store, now, ticks, calls, vc, proc>>

NextRoute ==
    \/ \E d \in RouteDraws : RouteStep(d)
    \/ RouteReturn

SpecRoute == InitRoute /\ [][NextRoute]_vars

-----------------------------------------------------------------------------
(* Properties of the settlement processor *)

Status(i) == settlements[i].SettlementStatus
Due(i) == now >= settlements[i].SettlementDate

\* C1: a scan moves every due PENDING settlement to SETTLING, and a scan whose
\* verification succeeds moves every due SETTLING settlement to SETTLED, so a
\* due settlement is SETTLED after two such scans.
C1_DueSettlementSettles ==
    [][Scan(1..Len(settlements)) =>
         \A i \in 1..Len(settlements) :
            Due(i) =>
              /\ (Status(i) = "PENDING" =>
                    settlements'[i].SettlementStatus = "SETTLING")
              /\ (Status(i) = "SETTLING" =>
                    settlements'[i].SettlementStatus = "SETTLED")]_vars

\* C2: a settlement leaves PENDING for SETTLING only at or after its settlement
\* date, and a scan leaves the record of a settlement that is not yet due as
\* it was.
C2_NoSettlingBeforeDate ==
    [][\A i \in 1..Len(settlements) :
         /\ (Status(i) = "PENDING" /\ settlements'[i].SettlementStatus = "SETTLING")
               => Due(i)
         /\ (ticks' # ticks /\ ~Due(i)) => settlements'[i] = settlements[i]]_vars

\* C2: a scan has moved a due settlement to SETTLING while another settlement,
\* not yet due, is still PENDING.
C2_Witness ==
    /\ ticks > 0
    /\ \E i, j \in 1..Len(settlements) :
          /\ Status(i) = "SETTLING"
          /\ settlements[i].UpdatedAt >= settlements[i].SettlementDate
          /\ Status(j) = "PENDING"
          /\ ~Due(j)

\* C3: a settlement that is FAILED or SETTLED keeps that status, no existing
\* settlement becomes FAILED, and a settlement is FAILED from its creation only
\* when SettleTrade's validation rejected it.
C3_TerminalStatuses ==
    [][/\ \A i \in 1..Len(settlements) :
            /\ Status(i) = "FAILED" => settlements'[i].SettlementStatus = "FAILED"
            /\ Status(i) = "SETTLED" => settlements'[i].SettlementStatus = "SETTLED"
            /\ settlements'[i].SettlementStatus = "FAILED" => Status(i) = "FAILED"
       /\ \A i \in (Len(settlements) + 1)..Len(settlements') :
            settlements'[i].SettlementStatus = "FAILED" =>
              /\ \E tradeID \in TradeIDs : SettleTrade(tradeID)
              /\ validateSettlement(settlements'[i]) # ""]_vars

\* C3: a settlement is FAILED and a scan made after its creation has moved
\* another settlement to SETTLING.
C3_Witness ==
    /\ ticks > 0
    /\ \E i, j \in 1..Len(settlements) :
          /\ Status(i) = "FAILED"
          /\ Status(j) = "SETTLING"
          /\ settlements[j].UpdatedAt >= settlements[i].CreatedAt

-----------------------------------------------------------------------------
(* Properties of clearing *)

ClearingNumbers(status) ==
    {clearings[i].ClearingID[2] :
        i \in {j \in 1..Len(clearings) : clearings[j].ClearingStatus = status}}
NettingNumbers == {nettings[i].NettingID[2] : i \in 1..Len(nettings)}

\* C4: whatever statement of SaveNettingResult the store fails, the netting
\* row of a clearing attempt is in the store exactly when the attempt's CLEARED
\* clearing row is, one row of each.
C4_NettingIffCleared ==
    /\ NettingNumbers = ClearingNumbers("CLEARED")
    /\ Cardinality(NettingNumbers) = Len(nettings)
    /\ Cardinality(ClearingNumbers("CLEARED")) =
         Cardinality({j \in 1..Len(clearings) : clearings[j].ClearingStatus = "CLEARED"})

\* C4: one attempt was rejected and left a FAILED clearing without a netting,
\* another committed its netting together with its CLEARED clearing.
C4_Witness ==
    /\ ClearingNumbers("FAILED") # {}
    /\ NettingNumbers # {}
    /\ \E i \in 1..Len(clearings), j \in 1..Len(nettings) :
          /\ clearings[i].ClearingStatus = "CLEARED"
          /\ clearings[i].ClearingID[2] = nettings[j].NettingID[2]

\* C5: when a validation gate rejects the trade, ClearTrade adds exactly one
\* clearing row, FAILED and of that trade, adds no netting row, and returns an
\* error that carries the reason of the gate that rejected it.
C5_GateRejection ==
    \A tradeID \in TradeIDs :
        LET r == ClearTradeResult(tradeID, "")
        IN  r.gate # "" =>
              /\ Len(r.clearings) = Len(clearings) + 1
              /\ SubSeq(r.clearings, 1, Len(clearings)) = clearings
              /\ r.nettings = nettings
              /\ r.id = NoID
              /\ r.err = "clearing validation failed: " \o r.gate
              /\ LET c == r.clearings[Len(r.clearings)]
                 IN  /\ c.TradeID = tradeID
                     /\ c.ClearingStatus = "FAILED"
                     /\ r.gate = "invalid settlement amount"
                          => c.SettlementAmount <= 0
                     /\ r.gate = "settlement amount exceeds position limit"
                          => c.SettlementAmount > positionLimit
                     /\ r.gate = "invalid margin requirement"
                          => c.MarginRequired <= 0
                     /\ r.gate = "clearing can only be processed during market hours"
                          => OutsideMarketHours(now)

\* C5: a clearing rejected by the position limit is in the store as FAILED and
\* no netting was stored for the attempt.
C5_Witness ==
    \E i \in 1..Len(clearings) :
        /\ clearings[i].ClearingStatus = "FAILED"
        /\ clearings[i].SettlementAmount > positionLimit
        /\ clearings[i].ClearingID[2] \notin NettingNumbers

\* C8: every trade has at most one clearing and at most one settlement.
C8_OnePerTrade ==
    \A tradeID \in TradeIDs :
        /\ Cardinality(Lookup(clearings, "TradeID", tradeID)) <= 1
        /\ Cardinality(Lookup(settlements, "TradeID", tradeID)) <= 1

\* C8: a ClearTrade call adds at most one clearing and no settlement, a
\* SettleTrade call adds at most one settlement and no clearing, each for the
\* trade it was called with, and no step adds more than one of either.
C8_OnePerCall ==
    [][/\ Len(clearings') - Len(clearings) \in {0, 1}
       /\ Len(settlements') - Len(settlements) \in {0, 1}
       /\ \A tradeID \in TradeIDs :
            /\ ClearTrade(tradeID, "") =>
                 /\ settlements' = settlements
                 /\ \A i \in (Len(clearings) + 1)..Len(clearings') :
                       clearings'[i].TradeID = tradeID
            /\ SettleTrade(tradeID) =>
                 /\ clearings' = clearings
                 /\ \A i \in (Len(settlements) + 1)..Len(settlements') :
                       settlements'[i].TradeID = tradeID]_vars

\* C8: a trade cleared once and settled once has one clearing and one
\* settlement.
C8_Witness ==
    \E tradeID \in TradeIDs :
        /\ Cardinality(Lookup(clearings, "TradeID", tradeID)) = 1
        /\ Cardinality(Lookup(settlements, "TradeID", tradeID)) = 1

\* C9: every settlement that is PENDING, SETTLING or SETTLED names a CLEARED
\* clearing of its own trade.
C9_SettlementOfClearedTrade ==
    \A i \in 1..Len(settlements) :
        settlements[i].SettlementStatus \in {"PENDING", "SETTLING", "SETTLED"} =>
            \E j \in 1..Len(clearings) :
                /\ clearings[j].ClearingID = settlements[i].ClearingID
                /\ clearings[j].TradeID = settlements[i].TradeID
                /\ clearings[j].ClearingStatus = "CLEARED"

-----------------------------------------------------------------------------
(* Properties of idempotent creation *)

\* C6: while the record of a key is live, CreateOrder with the key returns the
\* order the record names and ExecuteOrder with the key returns the execution
\* it names, and the call adds no order, execution or idempotency record,
\* changes no order and does not route.
C6_ReplayReturnsOriginal ==
    \A key \in Keys :
        LET found == Lookup(idempotency, "IdempotencyKey", key)
        IN  \A k \in found :
              idempotency[k].ExpiresAt > now =>
                /\ idempotency[k].ResourceType = "order" =>
                     \A in \in OrderInputs :
                        LET r == CreateOrderResult(in, key)
                        IN  /\ r.err = ""
                            /\ r.id = idempotency[k].ResourceID
                            /\ Lookup(orders, "OrderID", r.id) # {}
                            /\ r.orders = orders
                            /\ r.idempotency = idempotency
                /\ idempotency[k].ResourceType = "execution" =>
                     \A orderID \in OrderIDs, draws \in PipelineDraws :
                        LET r == ExecuteOrderResult(orderID, key, draws)
                        IN  /\ r.err = ""
                            /\ r.id = idempotency[k].ResourceID
                            /\ Lookup(executions, "ExecutionID", r.id) # {}
                            /\ ~r.routed
                            /\ r.executions = executions
                            /\ r.orders = orders
                            /\ r.idempotency = idempotency

\* C6: the store holds a live record of an order and a live record of an
\* execution, each of which a replay would meet.
C6_Witness ==
    \E i, j \in 1..Len(idempotency) :
        /\ idempotency[i].ResourceType = "order"
        /\ idempotency[i].ExpiresAt > now
        /\ idempotency[j].ResourceType = "execution"
        /\ idempotency[j].ExpiresAt > now

\* C7: however concurrent CreateOrder calls interleave, a key has at most one
\* idempotency record, and every order in the store is the resource of exactly
\* one record, so a call that lost the key leaves no order.
C7_OneOrderPerKey ==
    /\ \A key \in Keys : Cardinality(Lookup(idempotency, "IdempotencyKey", key)) <= 1
    /\ \A o \in 1..Len(orders) :
          Cardinality({k \in 1..Len(idempotency) :
                          /\ idempotency[k].ResourceID = orders[o].OrderID
                          /\ idempotency[k].ResourceType = "order"}) = 1
    /\ Len(orders) = Len(idempotency)

\* C7: two calls with one key ran concurrently, before any record could
\* expire: one returned its order, the other the store's refusal of the key.
C7_Witness ==
    /\ now = 0
    /\ \E p, q \in Procs :
          /\ p # q
          /\ calls[p].pc = "idle" /\ calls[q].pc = "idle"
          /\ calls[p].key = calls[q].key
          /\ calls[p].id # NoID
          /\ calls[q].err = "UNIQUE constraint failed: idempotency_records.idempotency_key"
          /\ Cardinality(Lookup(idempotency, "IdempotencyKey", calls[p].key)) = 1

-----------------------------------------------------------------------------
(* Properties of routing *)

FillQuantities(e) == [i \in 1..Len(e.Fills) |-> e.Fills[i].Quantity]
FillValues(e) == [i \in 1..Len(e.Fills) |-> e.Fills[i].Price * e.Fills[i].Quantity]

\* C10: an execution the router returns has between one and three fills, its
\* total quantity is the sum of the fills' quantities, and its average price is
\* the sum of price times quantity over the fills divided by the total
\* quantity.
C10_ExecutionTotals ==
    (rt.pc = "done" /\ rt.err = "") =>
        LET e == rt.execution
        IN  /\ Len(e.Fills) \in 1..MaxRouteAttempts
            /\ e.TotalQuantity = SumSeq(FillQuantities(e))
            /\ e.TotalQuantity > 0
            /\ e.AveragePrice.den = e.TotalQuantity
            /\ e.AveragePrice.num = SumSeq(FillValues(e))

\* C10: the router returned an execution made of three partial fills at
\* different prices.
C10_Witness ==
    /\ rt.pc = "done"
    /\ rt.err = ""
    /\ Len(rt.execution.Fills) = 3
    /\ rt.execution.Fills[1].Price # rt.execution.Fills[2].Price

-----------------------------------------------------------------------------
(* Properties of execution *)

\* every attempt of the draws fails on its exchange for this order
AllAttemptsFail(order, draws) ==
    \A i \in 1..MaxRouteAttempts :
        ExchangeExecuteOrder(GetBestExchange(draws[i].choice), order, draws[i]).err # ""

\* C11: when every routing attempt of an order fails, ExecuteOrder returns the
\* router's error and stores nothing: executions and idempotency records are
\* as before and the order keeps its status.
C11_NoFillsNoExecution ==
    \A orderID \in OrderIDs, key \in Keys, draws \in PipelineDraws :
        LET found == Lookup(orders, "OrderID", orderID)
            record == Lookup(idempotency, "IdempotencyKey", key)
            r == ExecuteOrderResult(orderID, key, draws)
        IN  (/\ found # {}
             /\ \A k \in record : idempotency[k].ExpiresAt <= now
             /\ AllAttemptsFail(orders[First(found)], draws))
            => /\ r.err = "failed to execute order on any exchange"
               /\ r.id = NoID
               /\ r.routed
               /\ r.executions = executions
               /\ r.idempotency = idempotency
               /\ r.orders = orders

\* C11: an order is PENDING and without execution, and executing it under an
\* unused key with draws that all fail returns the router's error.
C11_Witness ==
    \E o \in 1..Len(orders), key \in Keys :
        /\ orders[o].Status = "PENDING"
        /\ Lookup(executions, "OrderID", orders[o].OrderID) = {}
        /\ Lookup(idempotency, "IdempotencyKey", key) = {}
        /\ AllAttemptsFail(orders[o], <<DrawFail, DrawFail, DrawFail>>)
        /\ ExecuteOrderResult(orders[o].OrderID, key, <<DrawFail, DrawFail, DrawFail>>).err
             = "failed to execute order on any exchange"

-----------------------------------------------------------------------------
(* Netting alone: ClearTrade over stores that hold filled orders and their
   executions *)

\* the trades in the store when clearing starts: side, quantity in units and
\* price in thousands of dollars
NetTrades ==
    { [Side |-> "BUY", Quantity |-> 100, Price |-> 50],
      [Side |-> "SELL", Quantity |-> 40, Price |-> 50],
      [Side |-> "BUY", Quantity |-> 1500, Price |-> 2],
      [Side |-> "BUY", Quantity |-> 1000, Price |-> 3],
      [Side |-> "SELL", Quantity |-> 1500, Price |-> 2],
      [Side |-> "BUY", Quantity |-> 5, Price |-> 50],
      [Side |-> "SELL", Quantity |-> 5, Price |-> 50] }

NetKeys == <<"n1", "n2", "n3", "n4", "n5", "n6", "n7", "n8">>

NetOrder(i, trade) ==
    [OrderID |-> OrderID(i), ClientID |-> "c1", Symbol |-> "AAA", Side |-> trade.Side,
     OrderType |-> "MARKET", Quantity |-> trade.Quantity * QtyScale, Price |-> trade.Price,
     Status |-> "FILLED", CreatedAt |-> 0, UpdatedAt |-> 0]

NetExecution(i, trade) ==
    [ExecutionID |-> ExecutionID(i),
     OrderID |-> OrderID(i),
     TotalQuantity |-> trade.Quantity * QtyScale,
     AveragePrice |-> [num |-> trade.Price * trade.Quantity * QtyScale,
                       den |-> trade.Quantity * QtyScale],
     Side |-> trade.Side,
     Status |-> "COMPLETED",
     Fills |-> << [ExchangeID |-> "EXCH1", Price |-> trade.Price,
                   Quantity |-> trade.Quantity * QtyScale, FeeRate |-> 10,
                   FeeAmount |-> trade.Price * trade.Quantity * QtyScale * 10] >>,
     CreatedAt |-> 0]

InitNet ==
    /\ \E k \in 1..MaxNetTrades :
          \E ts \in [1..k -> NetTrades] :
             /\ orders = [i \in 1..k |-> NetOrder(i, ts[i])]
             /\ executions = [i \in 1..k |-> NetExecution(i, ts[i])]
             /\ idempotency =
                  [i \in 1..(2 * k) |->
                      [IdempotencyKey |-> NetKeys[i],
                       ResourceID |-> IF i <= k THEN OrderID(i) ELSE ExecutionID(i - k),
                       ResourceType |-> IF i <= k THEN "order" ELSE "execution",
                       ExpiresAt |-> IdempotencyTTL]]
    /\ clearings = <<>>
    /\ nettings = <<>>
    /\ settlements = <<>>
    /\ now = 0
    /\ ticks = 0
    /\ calls = [p \in Procs |-> IdleCall]
    /\ rt = IdleRouter
    /\ vc = IdleValidator
    /\ proc = StartedProcessor

NextNet ==
    \/ \E tradeID \in {ExecutionID(n) : n \in 1..MaxNetTrades} : ClearTrade(tradeID, "")
    \/ AdvanceTime

SpecNet == InitNet /\ [][NextNet]_vars

-----------------------------------------------------------------------------
(* Properties of netting *)

\* the executions of the symbol created inside the netting window
InWindow(symbol) ==
    {e \in 1..Len(executions) :
        /\ \E o \in 1..Len(orders) :
              orders[o].OrderID = executions[e].OrderID /\ orders[o].Symbol = symbol
        /\ executions[e].CreatedAt > now - NettingWindow}
SideOf(e) == orders[First(Lookup(orders, "OrderID", executions[e].OrderID))].Side
QuantityIn(S) == SumOver(S, [e \in S |-> executions[e].TotalQuantity])
ValueIn(S) ==
    SumOver(S, [e \in S |->
                   MulDiv(executions[e].AveragePrice.num, executions[e].TotalQuantity,
                          executions[e].AveragePrice.den)])

\* C12: the netting of a symbol has netQuantity = BUY quantities minus SELL
\* quantities, netAmount = BUY quantity*price minus SELL quantity*price, both
\* over the executions in the window, and netSettlement = |netAmount|.
C12_SideSignedNetting ==
    \A o \in 1..Len(orders) :
        LET net == calculateTradeNetting(orders[o], Len(clearings) + 1)
            buys == {e \in InWindow(orders[o].Symbol) : SideOf(e) = "BUY"}
            sells == {e \in InWindow(orders[o].Symbol) : SideOf(e) = "SELL"}
        IN  /\ net.err = ""
            /\ net.netting.NetQuantity = QuantityIn(buys) - QuantityIn(sells)
            /\ net.netting.NetAmount = ValueIn(buys) - ValueIn(sells)
            /\ net.netting.NetSettlement = Abs(net.netting.NetAmount)
            /\ net.netting.NetSettlement >= 0

\* C12: BUY 100 @ 50 and SELL 40 @ 50 are in the window and net to 60, 3000
\* and 3000 (amounts in thousands of dollars).
C12_Witness ==
    /\ Len(executions) = 2
    /\ executions[1].Side = "BUY" /\ executions[1].TotalQuantity = 100 * QtyScale
    /\ executions[2].Side = "SELL" /\ executions[2].TotalQuantity = 40 * QtyScale
    /\ \E c \in 1..Len(clearings) : clearings[c].MarginRequired = 360 * QtyScale * MarginScale
    /\ LET net == calculateTradeNetting(orders[1], Len(clearings) + 1).netting
       IN  /\ net.NetQuantity = 60 * QtyScale
           /\ net.NetAmount = 3000 * QtyScale
           /\ net.NetSettlement = 3000 * QtyScale

\* C13: the netting margin is netSettlement * 0.10 * 1.20, multiplied by 1.15
\* only when |netQuantity| is above 1000: netSettlement 3000 gives 360 at
\* |netQuantity| 60 and at exactly 1000, and 414 at 1500.
C13_CompoundedMargin ==
    \A o \in 1..Len(orders) :
        LET net == calculateTradeNetting(orders[o], Len(clearings) + 1).netting
            large == Abs(net.NetQuantity) > 1000 * QtyScale
            three == net.NetSettlement = 3000 * QtyScale
        \* 0.10 * 1.20 = 120 thousandths, 0.10 * 1.20 * 1.15 = 138 thousandths
        IN  /\ ~large => net.NetMargin = net.NetSettlement * 120
            /\ large => net.NetMargin = net.NetSettlement * 138
            /\ (three /\ Abs(net.NetQuantity) = 60 * QtyScale)
                  => net.NetMargin = 360 * QtyScale * MarginScale
            /\ (three /\ Abs(net.NetQuantity) = 1500 * QtyScale)
                  => net.NetMargin = 414 * QtyScale * MarginScale
            /\ (three /\ Abs(net.NetQuantity) = 1000 * QtyScale)
                  => net.NetMargin = 360 * QtyScale * MarginScale

\* C13: a clearing attempt netted exactly 1000 units with netSettlement 3000
\* and stored the margin 360 with its clearing.
C13_Witness ==
    /\ Len(executions) = 1
    /\ now < NettingWindow
    /\ LET net == calculateTradeNetting(orders[1], Len(clearings) + 1).netting
       IN  /\ Abs(net.NetQuantity) = 1000 * QtyScale
           /\ net.NetSettlement = 3000 * QtyScale
    /\ \E c \in 1..Len(clearings) : clearings[c].MarginRequired = 360 * QtyScale * MarginScale

-----------------------------------------------------------------------------
(* The validator's first gate alone, on settlement amounts in cents *)

CentsPerDollar == 100

\* settlement amounts around zero and around the position limit
AmountsInCents ==
    (-MaxCents..MaxCents)
       \cup {positionLimit * CentsPerDollar + d : d \in -MaxCents..MaxCents}

InitGate ==
    /\ orders = <<>>
    /\ executions = <<>>
    /\ idempotency = <<>>
    /\ clearings = <<>>
    /\ nettings = <<>>
    /\ settlements = <<>>
    /\ now = 0
    /\ ticks = 0
    /\ calls = [p \in Procs |-> IdleCall]
    /\ rt = IdleRouter
    /\ \E amount \in AmountsInCents : vc = [pc |-> "call", amount |-> amount, reason |-> ""]
    /\ proc = StartedProcessor

ValidateAmount ==
    /\ vc.pc = "call"
    /\ vc' = [vc EXCEPT !.pc = "done",
                        !.reason = validateSettlementAmount(vc.amount,
                                                            positionLimit * CentsPerDollar)]
    /\ UNCHANGED <<store, now, ticks, calls, rt, proc>>

NextGate == ValidateAmount

SpecGate == InitGate /\ [][NextGate]_vars

\* C14: the first gate accepts a settlement amount of exactly the position
\* limit, rejects the limit plus one cent and everything above it, and rejects
\* every amount that is zero or negative.
C14_PositionLimitBoundary ==
    vc.pc = "done" =>
        /\ vc.amount = positionLimit * CentsPerDollar => vc.reason = ""
        /\ vc.amount = positionLimit * CentsPerDollar + 1
             => vc.reason = "settlement amount exceeds position limit"
        /\ vc.amount > positionLimit * CentsPerDollar
             => vc.reason = "settlement amount exceeds position limit"
        /\ vc.amount <= 0 => vc.reason = "invalid settlement amount"
        /\ (vc.amount > 0 /\ vc.amount <= positionLimit * CentsPerDollar) => vc.reason = ""

\* C14: the gate has accepted exactly the position limit.
C14_Witness ==
    /\ vc.pc = "done"
    /\ vc.amount = positionLimit * CentsPerDollar
    /\ vc.reason = ""

-----------------------------------------------------------------------------
(* Properties of settlement creation *)

\* the settlement is PENDING, dated two days after its creation, and its final
\* amount is the settlement amount of the clearing it names, a clearing of its
\* own trade
WellFormedSettlement(s) ==
    /\ s.SettlementStatus = "PENDING"
    /\ s.SettlementDate = s.CreatedAt + 2 * SlotsPerDay
    /\ \E c \in 1..Len(clearings) :
          /\ clearings[c].ClearingID = s.ClearingID
          /\ clearings[c].TradeID = s.TradeID
          /\ clearings[c].SettlementAmount = s.FinalAmount

\* C15: a SettleTrade call that passes validation stores one settlement that is
\* PENDING, created now, dated two days later, with the final amount of the
\* clearing it is linked to; every stored settlement that passed validation
\* still has that date and amount.
C15_NewSettlement ==
    /\ \A tradeID \in TradeIDs :
          LET r == SettleTradeResult(tradeID)
          IN  r.err = "" =>
                /\ Len(r.settlements) = Len(settlements) + 1
                /\ SubSeq(r.settlements, 1, Len(settlements)) = settlements
                /\ LET s == r.settlements[Len(r.settlements)]
                   IN  /\ WellFormedSettlement(s)
                       /\ s.TradeID = tradeID
                       /\ s.CreatedAt = now
                       /\ s.SettlementID = r.id
    /\ \A i \in 1..Len(settlements) :
          settlements[i].SettlementStatus # "FAILED" =>
             WellFormedSettlement([settlements[i] EXCEPT !.SettlementStatus = "PENDING"])

\* C15: a settlement that passed validation is stored PENDING, dated two days
\* after its creation, for a trade whose clearing is CLEARED.
C15_Witness ==
    \E i \in 1..Len(settlements), c \in 1..Len(clearings) :
        /\ settlements[i].SettlementStatus = "PENDING"
        /\ settlements[i].SettlementDate = settlements[i].CreatedAt + 2 * SlotsPerDay
        /\ clearings[c].ClearingID = settlements[i].ClearingID
        /\ clearings[c].ClearingStatus = "CLEARED"
        /\ settlements[i].FinalAmount = clearings[c].SettlementAmount

-----------------------------------------------------------------------------
(* Properties of missing records *)

MissingExecution(tradeID) == Lookup(executions, "ExecutionID", tradeID) = {}
MissingOrder(tradeID) ==
    \E e \in Lookup(executions, "ExecutionID", tradeID) :
        Lookup(orders, "OrderID", executions[e].OrderID) = {}
MissingClearing(tradeID) == Lookup(clearings, "TradeID", tradeID) = {}

\* C16: ClearTrade for a trade without execution or without order, and
\* SettleTrade for a trade without execution, order or clearing, return the
\* error of the missing record and store no clearing, netting or settlement.
C16_MissingRecordPropagated ==
    \A tradeID \in TradeIDs :
        LET c == ClearTradeResult(tradeID, "")
            s == SettleTradeResult(tradeID)
        IN  /\ (MissingExecution(tradeID) \/ MissingOrder(tradeID)) =>
                  /\ c.err = IF MissingExecution(tradeID)
                             THEN "failed to fetch execution details"
                             ELSE "failed to fetch order details"
                  /\ c.id = NoID
                  /\ c.clearings = clearings
                  /\ c.nettings = nettings
            /\ (MissingExecution(tradeID) \/ MissingOrder(tradeID) \/ MissingClearing(tradeID)) =>
                  /\ s.err = IF MissingExecution(tradeID)
                             THEN "failed to fetch execution details"
                             ELSE IF MissingOrder(tradeID)
                             THEN "failed to fetch order details"
                             ELSE "failed to fetch clearing details"
                  /\ s.id = NoID
                  /\ s.settlements = settlements

\* C16: one trade has an execution but no clearing, so that settling it meets
\* the missing clearing, and another trade identifier has no execution at all.
C16_Witness ==
    /\ \E tradeID \in TradeIDs :
          /\ ~MissingExecution(tradeID)
          /\ MissingClearing(tradeID)
          /\ SettleTradeResult(tradeID).err = "failed to fetch clearing details"
    /\ \E tradeID \in TradeIDs :
          /\ MissingExecution(tradeID)
          /\ ClearTradeResult(tradeID, "").err = "failed to fetch execution details"

-----------------------------------------------------------------------------
(* Properties of store failures *)

\* the rows whose update a scan attempts: fetched and due
Updated == {i \in GetPendingSettlements : Due(i)}

\* C17: a store failure met by an operation is returned as its error: a
\* ClearTrade that would succeed returns an error when the store fails a
\* statement of SaveNettingResult, and a scan returns an error when the store
\* fails its fetch or the update of a settlement it processes.
C17_StoreFailurePropagated ==
    /\ \A tradeID \in TradeIDs, fault \in Faults \ {""} :
          ClearTradeResult(tradeID, "").err = "" => ClearTradeResult(tradeID, fault).err # ""
    /\ \A verify \in SUBSET (1..Len(settlements)), failed \in SUBSET (1..Len(settlements)) :
          /\ processPendingSettlementsResult(verify, TRUE, failed).err # ""
          /\ failed \cap Updated # {} =>
                processPendingSettlementsResult(verify, FALSE, failed).err # ""

-----------------------------------------------------------------------------
(* The POST handlers: each request carries an Idempotency-Key header, "" when
   the header is absent *)

Headers == Keys \cup {""}

HeaderRequired == "Idempotency-Key header is required"

\* GinHandlers.CreateOrderHandler: [status, err, orders, idempotency]
CreateOrderHandler(in, header) ==
    IF header = ""
    THEN [status |-> 400, err |-> HeaderRequired,
          orders |-> orders, idempotency |-> idempotency]
    ELSE LET r == CreateOrderResult(in, header)
         IN  [status |-> IF r.err = "" THEN 200 ELSE 500, err |-> r.err,
              orders |-> r.orders, idempotency |-> r.idempotency]

\* GinHandlers.ExecuteOrderHandler: [status, err, executions, idempotency, orders]
ExecuteOrderHandler(orderID, header, draws) ==
    IF header = ""
    THEN [status |-> 400, err |-> HeaderRequired,
          executions |-> executions, idempotency |-> idempotency, orders |-> orders]
    ELSE LET r == ExecuteOrderResult(orderID, header, draws)
         IN  [status |-> IF r.err = "" THEN 200 ELSE 500, err |-> r.err,
              executions |-> r.executions, idempotency |-> r.idempotency,
              orders |-> r.orders]

\* GinHandlers.ClearTradeHandler reads the trade_id parameter only:
\* [status, err, clearings, nettings]
ClearTradeHandler(tradeID, header) ==
    LET r == ClearTradeResult(tradeID, "")
    IN  [status |-> IF r.err = "" THEN 200 ELSE 500, err |-> r.err,
         clearings |-> r.clearings, nettings |-> r.nettings]

\* GinHandlers.SettleTradeHandler reads the trade_id parameter only:
\* [status, err, settlements]
SettleTradeHandler(tradeID, header) ==
    LET r == SettleTradeResult(tradeID)
    IN  [status |-> IF r.err = "" THEN 200 ELSE 500, err |-> r.err,
         settlements |-> r.settlements]

\* POST /orders: the handler answers 400 before it calls the service
PostOrder(in, header) ==
    IF header = "" THEN UNCHANGED vars ELSE CreateOrder(in, header)

\* POST /internal/execution/:order_id
PostExecution(orderID, header, draws) ==
    IF header = "" THEN UNCHANGED vars ELSE ExecuteOrder(orderID, header, draws)

\* POST /internal/clearing/:trade_id
PostClearing(tradeID, header) == ClearTrade(tradeID, "")

\* POST /internal/settlement/:trade_id
PostSettlement(tradeID, header) == SettleTrade(tradeID)

NextHttp ==
    \/ \E in \in OrderInputs, header \in Headers : PostOrder(in, header)
    \/ \E orderID \in OrderIDs, header \in Headers, draws \in PipelineDraws :
          PostExecution(orderID, header, draws)
    \/ \E tradeID \in TradeIDs, header \in Headers : PostClearing(tradeID, header)
    \/ \E tradeID \in TradeIDs, header \in Headers : PostSettlement(tradeID, header)
    \/ AdvanceTime

SpecHttp == Init /\ [][NextHttp]_vars

\* C18: a POST request without the Idempotency-Key header, to any of the four
\* endpoints, is answered with an error and changes no table.
C18_HeaderRequired ==
    [][/\ \A in \in OrderInputs :
            PostOrder(in, "") =>
               CreateOrderHandler(in, "").status = 400 /\ UNCHANGED store
       /\ \A orderID \in OrderIDs, draws \in PipelineDraws :
            PostExecution(orderID, "", draws) =>
               ExecuteOrderHandler(orderID, "", draws).status = 400 /\ UNCHANGED store
       /\ \A tradeID \in TradeIDs :
            PostClearing(tradeID, "") =>
               ClearTradeHandler(tradeID, "").status = 400 /\ UNCHANGED store
       /\ \A tradeID \in TradeIDs :
            PostSettlement(tradeID, "") =>
               SettleTradeHandler(tradeID, "").status = 400 /\ UNCHANGED store]_vars

-----------------------------------------------------------------------------
(* Orders and executions alone, with exchanges that may fill a part *)

\* a fill of the part of the quantity the first exchange's liquidity allows
DrawPartial == [choice |-> 0, succ |-> 50, pct |-> 100, liq |-> 10]

\* the random numbers of the three attempts: those of the pipeline, one partial
\* fill followed by failures, and three partial fills
ExecutionDraws ==
    PipelineDraws \cup { <<DrawPartial, DrawFail, DrawFail>>,
                         <<DrawPartial, DrawPartial, DrawPartial>> }

NextExec ==
    \/ \E in \in OrderInputs, key \in Keys : CreateOrder(in, key)
    \/ \E orderID \in OrderIDs, key \in Keys, draws \in ExecutionDraws :
          ExecuteOrder(orderID, key, draws)
    \/ AdvanceTime

SpecExec == Init /\ [][NextExec]_vars

\* C19: an order marked FILLED has an execution whose total quantity is the
\* quantity the order asked for.
C19_FilledIsFullyExecuted ==
    \A o \in 1..Len(orders) :
        orders[o].Status = "FILLED" =>
            \E e \in 1..Len(executions) :
                /\ executions[e].OrderID = orders[o].OrderID
                /\ executions[e].TotalQuantity = orders[o].Quantity

-----------------------------------------------------------------------------
(* The processor's loop: Start's select over ctx.Done() and ticker.C, next to
   requests that create, execute, clear and settle one order *)

\* the ticker puts a tick into its channel of capacity one; a tick that finds
\* the channel full is dropped
TickerFires ==
    /\ proc.pc = "select"
    /\ ~proc.tick
    /\ proc' = [proc EXCEPT !.tick = TRUE]
    /\ UNCHANGED <<store, now, ticks, calls, rt, vc>>

\* main returns and its deferred processorCancel() cancels the context
CancelContext ==
    /\ proc.ctx = "live"
    /\ proc' = [proc EXCEPT !.ctx = "cancelled"]
    /\ UNCHANGED <<store, now, ticks, calls, rt, vc>>

\* select takes  case <-ctx.Done()  and Start returns; when a tick waits too,
\* select may take either case
SelectDone ==
    /\ proc.pc = "select"
    /\ proc.ctx = "cancelled"
    /\ proc' = [proc EXCEPT !.pc = "returned"]
    /\ UNCHANGED <<store, now, ticks, calls, rt, vc>>

\* select takes  case <-ticker.C  and runs processPendingSettlements
SelectTick(verify) ==
    /\ proc.pc = "select"
    /\ proc.tick
    /\ ticks < MaxTicks
    /\ proc' = [proc EXCEPT !.tick = FALSE]
    /\ ticks' = ticks + 1
    /\ settlements' = processPendingSettlements(verify)
    /\ UNCHANGED <<orders, executions, idempotency, clearings, nettings, now, calls, rt, vc>>

NextProc ==
    \/ \E in \in OrderInputs : CreateOrder(in, "k1")
    \/ \E orderID \in OrderIDs : ExecuteOrder(orderID, "k2", <<DrawLow, DrawFail, DrawFail>>)
    \/ \E tradeID \in TradeIDs : ClearTrade(tradeID, "")
    \/ \E tradeID \in TradeIDs : SettleTrade(tradeID)
    \/ AdvanceTime
    \/ TickerFires
    \/ CancelContext
    \/ SelectDone
    \/ \E verify \in SUBSET (1..Len(settlements)) : SelectTick(verify)

SpecProc == Init /\ [][NextProc]_vars

\* C20: once the processor's context is cancelled no scan begins, whether or
\* not a tick is waiting.
C20_NoScanAfterCancel ==
    [][proc.ctx = "cancelled" => ticks' = ticks]_vars

-----------------------------------------------------------------------------
(* Shutdown: the processor's scan taken one settlement at a time, next to main,
   which after the quit signal shuts the server down, returns, cancels the
   processor's context on its way out and ends the process without waiting for
   the goroutine that runs Start *)

\* requests are served only until srv.Shutdown, which main calls before it returns
Serving == proc.ctx = "live"

\* the rows a query returns, in the order of their insertion
FetchedRows(rows) ==
    [k \in 1..Cardinality(rows) |->
        CHOOSE i \in rows : Cardinality({j \in rows : j < i}) = k - 1]

\* select takes  case <-ticker.C : processPendingSettlements fetches the PENDING
\* settlements; no request changes a stored settlement, so the fetched copies
\* are kept as row numbers
StartScan ==
    /\ proc.pc = "select"
    /\ proc.tick
    /\ ticks < MaxTicks
    /\ ticks' = ticks + 1
    /\ proc' = [proc EXCEPT !.tick = FALSE, !.pc = "scanning",
                            !.todo = FetchedRows(GetPendingSettlements)]
    /\ UNCHANGED <<store, now, calls, rt, vc>>

\* one iteration of the loop over the fetched settlements
ScanStep(verified) ==
    /\ proc.pc = "scanning"
    /\ proc.todo # <<>>
    /\ settlements' = [settlements EXCEPT
                          ![Head(proc.todo)] = ProcessSettlement(@, verified)]
    /\ proc' = [proc EXCEPT !.todo = Tail(@)]
    /\ UNCHANGED <<orders, executions, idempotency, clearings, nettings, now, ticks,
                   calls, rt, vc>>

\* processPendingSettlements returns and Start is back at its select
ScanEnd ==
    /\ proc.pc = "scanning"
    /\ proc.todo = <<>>
    /\ proc' = [proc EXCEPT !.pc = "select"]
    /\ UNCHANGED <<store, now, ticks, calls, rt, vc>>

\* the ticker fires while a scan runs
TickerFiresInScan ==
    /\ proc.pc = "scanning"
    /\ ~proc.tick
    /\ proc' = [proc EXCEPT !.tick = TRUE]
    /\ UNCHANGED <<store, now, ticks, calls, rt, vc>>

\* main has returned: the process ends and takes the processor's goroutine with
\* it wherever Start stands
ProcessExit ==
    /\ proc.ctx = "cancelled"
    /\ proc.pc \in {"select", "scanning"}
    /\ proc' = [proc EXCEPT !.pc = "killed"]
    /\ UNCHANGED <<store, now, ticks, calls, rt, vc>>

NextShutdown ==
    \/ Serving /\ \E in \in OrderInputs : CreateOrder(in, "k1")
    \/ Serving /\ \E orderID \in OrderIDs :
                     ExecuteOrder(orderID, "k2", <<DrawLow, DrawFail, DrawFail>>)
    \/ Serving /\ \E tradeID \in TradeIDs : ClearTrade(tradeID, "")
    \/ Serving /\ \E tradeID \in TradeIDs : SettleTrade(tradeID)
    \/ AdvanceTime
    \/ TickerFires
    \/ TickerFiresInScan
    \/ StartScan
    \/ \E verified \in BOOLEAN : ScanStep(verified)
    \/ ScanEnd
    \/ CancelContext
    \/ SelectDone
    \/ ProcessExit

SpecShutdown == Init /\ [][NextShutdown]_vars

\* C21: after the shutdown signal Start returns, and a scan in progress at the
\* signal finishes its updates first: the process never ends while Start is
\* still at its select or inside a scan.
C21_StartReturnsAfterShutdown ==
    proc.pc # "killed"

-----------------------------------------------------------------------------
(* Clearing records are terminal *)

TerminalClearings ==
    \A i \in 1..Len(clearings) : clearings[i].ClearingStatus \in {"CLEARED", "FAILED"}

ClearingsKept ==
    /\ Len(clearings') >= Len(clearings)
    /\ \A i \in 1..Len(clearings) : clearings'[i] = clearings[i]

\* C22: every stored clearing is CLEARED or FAILED, never PENDING, and no step
\* of the pipeline or of the processor changes a clearing once it is stored.
C22_ClearingTerminal ==
    []TerminalClearings /\ [][ClearingsKept]_vars

\* a CLEARED and a FAILED clearing are stored, the cleared trade was settled
\* afterwards and the processor has moved its settlement on
C22_Witness ==
    /\ ClearingNumbers("CLEARED") # {}
    /\ ClearingNumbers("FAILED") # {}
    /\ \E i \in 1..Len(settlements) : settlements[i].SettlementStatus = "SETTLING"

-----------------------------------------------------------------------------
(* The settlement service with its status update *)

\* the status strings a caller passes; the service accepts any string
StatusInputs == {"PENDING", "SETTLED"}

\* the identifiers a caller passes: the first settlement's and one never issued
SettlementIDs == {SettlementID(1), SettlementID(0)}

\* Service.UpdateSettlementStatus over Database.UpdateSettlementStatus:
\* [err, settlements]; every row of that identifier gets the status and the time
UpdateSettlementStatusResult(settlementID, status) ==
    LET found == Lookup(settlements, "SettlementID", settlementID)
    IN  IF found = {}
        THEN [err |-> "settlement not found", settlements |-> settlements]
        ELSE [err |-> "",
              settlements |->
                  [i \in 1..Len(settlements) |->
                      IF i \in found
                      THEN [settlements[i] EXCEPT !.SettlementStatus = status,
                                                  !.UpdatedAt = now]
                      ELSE settlements[i]]]

UpdateSettlementStatus(settlementID, status) ==
    /\ settlements' = UpdateSettlementStatusResult(settlementID, status).settlements
    /\ UNCHANGED <<orders, executions, idempotency, clearings, nettings, now, ticks,
                   calls, rt, vc, proc>>

NextService ==
    \/ \E in \in OrderInputs : CreateOrder(in, "k1")
    \/ \E orderID \in OrderIDs : ExecuteOrder(orderID, "k2", <<DrawLow, DrawFail, DrawFail>>)
    \/ \E tradeID \in TradeIDs : ClearTrade(tradeID, "")
    \/ \E tradeID \in TradeIDs : SettleTrade(tradeID)
    \/ Scan(1..Len(settlements))
    \/ \E settlementID \in SettlementIDs, status \in StatusInputs :
          UpdateSettlementStatus(settlementID, status)
    \/ AdvanceTime

SpecService == Init /\ [][NextService]_vars

\* C23: a stored settlement changes only by a processor scan at or after its
\* settlement date, and then only from PENDING to SETTLING or from SETTLING to
\* SETTLED; no other operation of the settlement service changes it.
C23_OnlyStateMachineMutates ==
    [][\A i \in 1..Len(settlements) :
          settlements'[i] # settlements[i]
             => /\ ticks' = ticks + 1
                /\ Due(i)
                /\ <<Status(i), settlements'[i].SettlementStatus>>
                      \in {<<"PENDING", "SETTLING">>, <<"SETTLING", "SETTLED">>}]_vars

-----------------------------------------------------------------------------
(* validateClearing alone: one call on a clearing and an order drawn from the
   values that pass and fail each gate, over a store with or without an
   execution of the day *)

\* settlement amounts in dollars
GateAmounts == {0, 1000, 600000}
\* margins in dollars
GateMargins == {0, 120, 800000, 900000, 2000000}
\* net positions in units
GatePositions == {10, -10, 1000000, 1100000}

\* the order whose execution fills the client's day: 100 units at 50 thousand
\* dollars each, the daily trading limit
DayTrade == [Side |-> "BUY", Quantity |-> 100, Price |-> 50]

InitValidate ==
    /\ \E k \in 0..1 :
          /\ orders = [i \in 1..k |-> NetOrder(i, DayTrade)]
          /\ executions = [i \in 1..k |-> NetExecution(i, DayTrade)]
          /\ idempotency = <<>>
    /\ clearings = <<>>
    /\ nettings = <<>>
    /\ settlements = <<>>
    /\ now \in 0..1
    /\ ticks = 0
    /\ calls = [p \in Procs |-> IdleCall]
    /\ rt = IdleRouter
    /\ proc = StartedProcessor
    /\ \E amount \in GateAmounts, margin \in GateMargins, position \in GatePositions,
          orderType \in {"MARKET", "LIMIT"} :
          vc = [pc |-> "call",
                clearing |-> [ClearingID |-> ClearingID(1), TradeID |-> ExecutionID(2),
                              ClearingStatus |-> "PENDING",
                              MarginRequired |-> margin * MarginScale,
                              NetPositions |-> position * QtyScale,
                              SettlementAmount |-> amount],
                order |-> [NetOrder(2, DayTrade) EXCEPT !.OrderType = orderType],
                reason |-> ""]

\* one call of validateClearing: it reads the store and returns
ValidateClearing ==
    /\ vc.pc = "call"
    /\ vc' = [vc EXCEPT !.pc = "done", !.reason = validateClearing(vc.clearing, vc.order)]
    /\ UNCHANGED <<store, now, ticks, calls, rt, proc>>

NextValidate == ValidateClearing

SpecValidate == InitValidate /\ [][NextValidate]_vars

\* what each gate, taken by itself, says of the clearing: settlement amount,
\* margin, daily net position, daily trading volume, market hours, risk score
GateReasons(clearing, order) ==
    << IF clearing.SettlementAmount <= 0 THEN "invalid settlement amount"
       ELSE IF clearing.SettlementAmount > positionLimit
       THEN "settlement amount exceeds position limit" ELSE "",
       IF clearing.MarginRequired <= 0 THEN "invalid margin requirement"
       ELSE IF clearing.MarginRequired \div MarginScale
                  > (maxMarginUtilization * availableMargin) \div 100
       THEN "margin utilization exceeds maximum allowed" ELSE "",
       IF Abs(GetDailyNetPosition(order.ClientID) + clearing.NetPositions)
             > maxDailyNetPosition * QtyScale
       THEN "projected net position would exceed daily limit" ELSE "",
       IF GetDailyTradingVolume(order.ClientID) + clearing.SettlementAmount
             > dailyTradingLimit
       THEN "projected daily volume would exceed limit" ELSE "",
       IF OutsideMarketHours(now)
       THEN "clearing can only be processed during market hours" ELSE "",
       IF calculateMockRiskScore(clearing, order) > riskThreshold
       THEN "risk score exceeds acceptable threshold" ELSE "" >>

FailingGates(clearing, order) ==
    {k \in 1..6 : GateReasons(clearing, order)[k] # ""}

FirstFailure(clearing, order) ==
    LET failing == FailingGates(clearing, order)
    IN  IF failing = {} THEN ""
        ELSE GateReasons(clearing, order)[CHOOSE k \in failing : \A j \in failing : k <= j]

ValidationReported ==
    vc.pc = "done" => vc.reason = FirstFailure(vc.clearing, vc.order)

\* C24: validateClearing reports the reason of the earliest failing gate in the
\* order settlement amount, margin, daily net position, daily trading volume,
\* market hours, risk score, "" when none fails, and writes nothing to the store.
C24_FirstFailingGateWins ==
    []ValidationReported /\ [][UNCHANGED store]_vars

\* a validated clearing that fails the daily net position gate and at least one
\* later gate, and is reported for the daily net position
C24_Witness ==
    /\ vc.pc = "done"
    /\ Cardinality(FailingGates(vc.clearing, vc.order)) >= 2
    /\ vc.reason = "projected net position would exceed daily limit"

-----------------------------------------------------------------------------
(* The values of the clearing record *)

\* C25: the clearing that ClearTrade validates and stores has settlementAmount =
\* averagePrice * totalQuantity and netPositions = +totalQuantity (BUY) or
\* -totalQuantity (SELL) of the triggering execution alone, and marginRequired =
\* the net margin of the window's netting.
C25_ClearingOfTriggeringExecution ==
    \A e \in 1..Len(executions) :
        LET execution == executions[e]
            n == Len(clearings) + 1
            r == ClearTradeResult(execution.ExecutionID, "")
            net == calculateTradeNetting(orders[OrderOf(execution)], n)
        IN  /\ Len(r.clearings) = n
            /\ net.err = ""
            /\ r.clearings[n].TradeID = execution.ExecutionID
            /\ r.clearings[n].SettlementAmount
                  = MulDiv(execution.AveragePrice.num, execution.TotalQuantity,
                           execution.AveragePrice.den)
            /\ r.clearings[n].NetPositions
                  = IF execution.Side = "BUY" THEN execution.TotalQuantity
                    ELSE IF execution.Side = "SELL" THEN -execution.TotalQuantity
                    ELSE r.clearings[n].NetPositions
            /\ r.clearings[n].MarginRequired = net.netting.NetMargin
            /\ r.err = "" => /\ Len(r.nettings) = Len(nettings) + 1
                             /\ r.nettings[Len(r.nettings)].NetMargin
                                   = r.clearings[n].MarginRequired

\* BUY 100 @ 50 and SELL 40 @ 50 are in the window, net 60 and 3000; the stored
\* clearing of the SELL carries -40 and 2000 of its own execution and the
\* window's margin 360
C25_Witness ==
    /\ Len(executions) = 2
    /\ executions[1].Side = "BUY" /\ executions[1].TotalQuantity = 100 * QtyScale
    /\ executions[2].Side = "SELL" /\ executions[2].TotalQuantity = 40 * QtyScale
    /\ \E c \in 1..Len(clearings) :
          /\ clearings[c].TradeID = ExecutionID(2)
          /\ clearings[c].NetPositions = -40 * QtyScale
          /\ clearings[c].SettlementAmount = 2000 * QtyScale
          /\ clearings[c].MarginRequired = 360 * QtyScale * MarginScale

-----------------------------------------------------------------------------
(* The executions a netting aggregates *)

\* the COMPLETED executions of the symbol created in the 24 hours before now
CompletedInWindow(symbol) ==
    {e \in InWindow(symbol) : executions[e].Status = "COMPLETED"}

\* C26: the netting ClearTrade computes for a trade aggregates exactly the
\* COMPLETED executions of the order's symbol created in the trailing 24-hour
\* window, the triggering execution is among them, and the netting lists the
\* identifier of each.
C26_WindowHoldsTrigger ==
    \A e \in 1..Len(executions) :
        LET order == orders[OrderOf(executions[e])]
            net == calculateTradeNetting(order, Len(clearings) + 1)
        IN  /\ net.err = ""
            /\ net.netting.OriginalTrades
                  = {executions[x].ExecutionID : x \in CompletedInWindow(order.Symbol)}
            /\ executions[e].ExecutionID \in net.netting.OriginalTrades

-----------------------------------------------------------------------------
(* Netting over a store that holds an execution without its order: the tables
   carry no foreign key from executions to orders *)

InitOrphan ==
    /\ \E t1, t2 \in NetTrades :
          /\ orders = <<NetOrder(1, t1)>>
          /\ executions = <<NetExecution(1, t1), NetExecution(2, t2)>>
          /\ idempotency =
                <<[IdempotencyKey |-> NetKeys[1], ResourceID |-> OrderID(1),
                   ResourceType |-> "order", ExpiresAt |-> IdempotencyTTL],
                  [IdempotencyKey |-> NetKeys[2], ResourceID |-> ExecutionID(1),
                   ResourceType |-> "execution", ExpiresAt |-> IdempotencyTTL]>>
    /\ clearings = <<>>
    /\ nettings = <<>>
    /\ settlements = <<>>
    /\ now = 0
    /\ ticks = 0
    /\ calls = [p \in Procs |-> IdleCall]
    /\ rt = IdleRouter
    /\ vc = IdleValidator
    /\ proc = StartedProcessor

NextOrphan ==
    \/ \E tradeID \in {ExecutionID(1), ExecutionID(2)} : ClearTrade(tradeID, "")
    \/ AdvanceTime

SpecOrphan == InitOrphan /\ [][NextOrphan]_vars

\* the executions created in the window whose order row is absent
Unresolved ==
    {x \in 1..Len(executions) :
        /\ executions[x].CreatedAt > now - NettingWindow
        /\ Lookup(orders, "OrderID", executions[x].OrderID) = {}}

-----------------------------------------------------------------------------
(* Properties of the router's loop *)

\* the scheduler runs the goroutine that routes: the loop's next step is taken
SpecRouteFair == SpecRoute /\ WF_vars(NextRoute)

AttemptsBounded ==
    /\ rt.st.i \in 0..MaxRouteAttempts
    /\ Len(rt.st.fills) <= rt.st.i
    /\ rt.pc = "done" =>
          \/ rt.err # "" /\ rt.execution = NoExecution
          \/ rt.err = "" /\ rt.execution.Fills = rt.st.fills /\ rt.st.fills # <<>>

AttemptCounted ==
    rt'.st # rt.st =>
        /\ rt.st.i < MaxRouteAttempts
        /\ rt.st.remainingQty > 0
        /\ rt'.st.i = rt.st.i + 1

\* C28: routing makes at most 3 attempts, every attempt, failed or not, counts,
\* none is made once the remaining quantity is <= 0, and routing ends with an
\* execution or an error.
C28_AttemptBudget ==
    []AttemptsBounded /\ [][AttemptCounted]_vars /\ <>(rt.pc = "done")

\* routing ended after three attempts of which two failed, with quantity left
C28_Witness ==
    /\ rt.pc = "done"
    /\ rt.st.i = MaxRouteAttempts
    /\ Len(rt.st.fills) = 1
    /\ rt.st.remainingQty > 0

\* C29: the average price is never a division by a total executed quantity of
\* zero: for every order, of quantity zero or negative too, routing returns an
\* error or an execution whose totalQuantity is strictly positive.
C29_NoDivisionByZero ==
    rt.pc = "done" =>
        /\ rt.err = "" => /\ rt.execution.TotalQuantity > 0
                          /\ rt.execution.AveragePrice.den > 0
                          /\ rt.order.Quantity > 0
        /\ rt.err # "" => rt.st.totalExecutedQty = 0

\* routing an order of negative quantity and one of quantity zero is refused
\* without an attempt; the predicate holds for the negative one
C29_Witness ==
    /\ rt.pc = "done"
    /\ rt.order.Quantity < 0
    /\ rt.st.i = 0
    /\ rt.err = "failed to execute order on any exchange"

-----------------------------------------------------------------------------
(* Venue selection alone: one call of GetBestExchange on a sampled choice *)

\* the values of  rand.Float64() * totalWeight  to the unit of weight, and
\* beyond the total the values that no cumulative weight reaches
Choices == 0..(totalWeight + Len(mockExchanges))

InitSelect ==
    /\ orders = <<>>
    /\ executions = <<>>
    /\ idempotency = <<>>
    /\ clearings = <<>>
    /\ nettings = <<>>
    /\ settlements = <<>>
    /\ now = 0
    /\ ticks = 0
    /\ calls = [p \in Procs |-> IdleCall]
    /\ \E choice \in Choices : rt = [pc |-> "select", choice |-> choice, exchange |-> <<>>]
    /\ vc = IdleValidator
    /\ proc = StartedProcessor

SelectExchange ==
    /\ rt.pc = "select"
    /\ rt' = [rt EXCEPT !.pc = "selected", !.exchange = GetBestExchange(rt.choice)]
    /\ UNCHANGED <<store, now, ticks, calls, vc, proc>>

NextSelect == SelectExchange

SpecSelect == InitSelect /\ [][NextSelect]_vars

\* the weights of the first k registered venues, summed
WeightOfFirst(k) ==
    SumSeq([j \in 1..k |-> mockExchanges[j].LiquidityFactor * mockExchanges[j].SuccessRate])

SelectionCorrect ==
    rt.pc = "selected" =>
        /\ \E k \in 1..Len(mockExchanges) : rt.exchange = mockExchanges[k]
        /\ \A k \in 1..Len(mockExchanges) :
              (WeightOfFirst(k) >= rt.choice
                 /\ \A j \in 1..(k - 1) : WeightOfFirst(j) < rt.choice)
                 => rt.exchange = mockExchanges[k]
        /\ WeightOfFirst(Len(mockExchanges)) < rt.choice => rt.exchange = mockExchanges[1]

\* C30: GetBestExchange returns the first venue in registration order whose
\* cumulative weight is >= the threshold, the first-registered venue when none
\* reaches it, always a venue, and changes nothing but its own result.
C30_SelectionByCumulativeWeight ==
    []SelectionCorrect /\ [][rt'.choice = rt.choice /\ UNCHANGED store]_vars

\* the threshold equal to the first venue's weight selects the first venue
C30_Witness ==
    /\ rt.pc = "selected"
    /\ rt.choice = WeightOfFirst(1)
    /\ rt.exchange.ID = "EXCH1"

-----------------------------------------------------------------------------
(* Frame of ExecuteOrder on the order *)

\* the columns of an order fixed at its creation
Terms(order) ==
    <<order.OrderID, order.ClientID, order.Symbol, order.Side, order.OrderType,
      order.Quantity, order.Price, order.CreatedAt>>

\* C31: executing an order changes only its status, to FILLED, and its update
\* time: symbol, side, quantity, price, kind and client of a stored order stay
\* as they were at its creation.
C31_OrderTermsKept ==
    [][\A o \in 1..Len(orders) :
          /\ Terms(orders'[o]) = Terms(orders[o])
          /\ orders'[o].Status \in {orders[o].Status, "FILLED"}]_vars

\* an order of 10 is FILLED by an execution of less than 10, made of attempts on
\* the remaining quantity
C31_Witness ==
    \E o \in 1..Len(orders), e \in 1..Len(executions) :
        /\ orders[o].Status = "FILLED"
        /\ orders[o].Quantity = 10 * QtyScale
        /\ executions[e].OrderID = orders[o].OrderID
        /\ Len(executions[e].Fills) = 3
        /\ executions[e].TotalQuantity < orders[o].Quantity

\* C32: the risk score gate never fails: a clearing that passes the gates of
\* settlement amount, margin, daily net position, daily volume and market hours
\* has a risk score of at most 0.4 + 0.3 * 0.8 + 0.3 * 0.18 = 0.694 (in 1e-8:
\* 69400000), below the threshold 0.8, for MARKET and for LIMIT orders.
C32_RiskGateNeverFails ==
    vc.pc = "done" =>
        /\ vc.reason # "risk score exceeds acceptable threshold"
        /\ (\A k \in 1..5 : GateReasons(vc.clearing, vc.order)[k] = "")
              => /\ calculateMockRiskScore(vc.clearing, vc.order)
                       <= 40000000 + 24000000 + 5400000
                 /\ calculateMockRiskScore(vc.clearing, vc.order) < riskThreshold
                 /\ vc.reason = ""

\* a MARKET clearing at the margin limit 800000 and the position limit 1000000
\* passes every gate with the score 0.694
C32_Witness ==
    /\ vc.pc = "done"
    /\ vc.reason = ""
    /\ vc.order.OrderType = "MARKET"
    /\ vc.clearing.MarginRequired = 800000 * MarginScale
    /\ calculateMockRiskScore(vc.clearing, vc.order) = 69400000

-----------------------------------------------------------------------------
(* The daily figures of gates 3 and 4 *)

\* the clearing ClearTrade hands to validateClearing for an execution, as far as
\* gates 3 and 4 read it
ClearingOf(execution) ==
    processClearingCalculations([NetPositions |-> 0, SettlementAmount |-> 0], execution)

\* C33: for a trade cleared on the UTC day of its execution, the projected daily
\* net position is the signed sum of the client's COMPLETED executions of the
\* day and the projected daily volume is their summed value, the triggering
\* execution counted once in each.
C33_TriggerCountedOnce ==
    \A e \in 1..Len(executions) :
        (OrderOf(executions[e]) # 0 /\ Day(executions[e].CreatedAt) = Day(now)
            /\ executions[e].Status = "COMPLETED")
           => LET order == orders[OrderOf(executions[e])]
                  today == DailyExecutions(order.ClientID)
              IN  /\ projectedNetPosition(ClearingOf(executions[e]), order)
                        = Abs(SumOver(today, [x \in today |-> SignedQuantity(x)]))
                  /\ projectedDailyVolume(ClearingOf(executions[e]), order)
                        = SumOver(today, [x \in today |-> ExecutionValue(x)])

-----------------------------------------------------------------------------
(* One client's trading day near the daily limit: DayCleared trades of 500,000
   dollars each are executed and cleared, further orders are created, executed
   and cleared by two request goroutines whose ClearTrade calls read the store
   and write their rows in separate steps *)

DayCleared == 8
MaxDayTrades == 11

\* BUY 10 units at 50 thousand dollars: 500,000 dollars, the position limit
DayOrderTrade == [Side |-> "BUY", Quantity |-> 10, Price |-> 50]
DayInput ==
    [ClientID |-> "c1", Symbol |-> "AAA", Side |-> "BUY", OrderType |-> "MARKET",
     Quantity |-> 10 * QtyScale, Price |-> 50]
DayKey(i) == <<"day", i>>
\* an attempt that fills the whole quantity at the order's price
DrawExact == [choice |-> 0, succ |-> 50, pct |-> 100, liq |-> 2]

\* the rows ClearTrade stored for the i-th trade when the first i trades were
\* in the store
DayClearing(i) ==
    [ClearingID |-> ClearingID(i), TradeID |-> ExecutionID(i),
     ClearingStatus |-> "CLEARED",
     MarginRequired |-> NettingMargin(i * 500000, i * 10 * QtyScale),
     NetPositions |-> 10 * QtyScale, SettlementAmount |-> 500000]
DayNetting(i) ==
    [NettingID |-> NettingID(i), Symbol |-> "AAA",
     WindowStart |-> 1 - NettingWindow, WindowEnd |-> 1,
     NetQuantity |-> i * 10 * QtyScale, NetAmount |-> i * 500000,
     NetSettlement |-> i * 500000,
     NetMargin |-> NettingMargin(i * 500000, i * 10 * QtyScale),
     Status |-> "COMPLETED",
     OriginalTrades |-> {ExecutionID(j) : j \in 1..i}]

InitDay ==
    /\ orders = [i \in 1..DayCleared |-> NetOrder(i, DayOrderTrade)]
    /\ executions = [i \in 1..DayCleared |-> NetExecution(i, DayOrderTrade)]
    /\ idempotency =
          [i \in 1..(2 * DayCleared) |->
              [IdempotencyKey |-> DayKey(i),
               ResourceID |-> IF i <= DayCleared THEN OrderID(i)
                              ELSE ExecutionID(i - DayCleared),
               ResourceType |-> IF i <= DayCleared THEN "order" ELSE "execution",
               ExpiresAt |-> IdempotencyTTL]]
    /\ clearings = [i \in 1..DayCleared |-> DayClearing(i)]
    /\ nettings = [i \in 1..DayCleared |-> DayNetting(i)]
    /\ settlements = <<>>
    /\ now = 1
    /\ ticks = 0
    /\ calls = [p \in Procs |-> IdleCall]
    /\ rt = IdleRouter
    /\ vc = IdleValidator
    /\ proc = StartedProcessor

DayCreateOrder ==
    LET r == CreateOrderResult(DayInput, DayKey(2 * Len(orders) + 1))
    IN  /\ Len(orders) < MaxDayTrades
        /\ orders' = r.orders
        /\ idempotency' = r.idempotency
        /\ UNCHANGED <<executions, clearings, nettings, settlements, now, ticks,
                       calls, rt, vc, proc>>

DayExecuteOrder(o) ==
    LET r == ExecuteOrderResult(orders[o].OrderID, DayKey(2 * o),
                                <<DrawExact, DrawExact, DrawExact>>)
    IN  /\ orders[o].Status = "PENDING"
        /\ executions' = r.executions
        /\ idempotency' = r.idempotency
        /\ orders' = r.orders
        /\ UNCHANGED <<clearings, nettings, settlements, now, ticks, calls, rt, vc, proc>>

\* the trades with a clearing stored or under way
ClearingRequested ==
    {clearings[i].TradeID : i \in 1..Len(clearings)}
        \cup {calls[p].resource : p \in {q \in Procs : calls[q].pc = "clearing"}}

\* ClearTrade up to its write: the execution, the order, the window and the
\* day's figures are read and the gates evaluated
DayClearRead(p, tradeID) ==
    LET r == ClearTradeResult(tradeID, "")
    IN  /\ calls[p].pc = "idle"
        /\ tradeID \notin ClearingRequested
        /\ calls' = [calls EXCEPT ![p] =
              [pc |-> "clearing", in |-> <<>>, key |-> "", resource |-> tradeID,
               err |-> r.err, id |-> r.id,
               rows |-> SubSeq(r.clearings, Len(clearings) + 1, Len(r.clearings)),
               nets |-> SubSeq(r.nettings, Len(nettings) + 1, Len(r.nettings))]]
        /\ UNCHANGED <<store, now, ticks, rt, vc, proc>>

\* ClearTrade's write, CreateClearing or SaveNettingResult, and its return; the
\* rows carry the uuids of their call
DayClearWrite(p) ==
    LET n == Len(clearings) + 1
    IN  /\ calls[p].pc = "clearing"
        /\ clearings' = clearings \o
              [i \in 1..Len(calls[p].rows) |->
                  [calls[p].rows[i] EXCEPT !.ClearingID = ClearingID(n)]]
        /\ nettings' = nettings \o
              [i \in 1..Len(calls[p].nets) |->
                  [calls[p].nets[i] EXCEPT !.NettingID = NettingID(n)]]
        /\ calls' = [calls EXCEPT ![p] =
              [IdleCall EXCEPT !.err = calls[p].err, !.id = calls[p].id]]
        /\ UNCHANGED <<orders, executions, idempotency, settlements, now, ticks,
                       rt, vc, proc>>

NextDay ==
    \/ DayCreateOrder
    \/ \E o \in 1..Len(orders) : DayExecuteOrder(o)
    \/ \E p \in Procs, e \in 1..Len(executions) : DayClearRead(p, executions[e].ExecutionID)
    \/ \E p \in Procs : DayClearWrite(p)

SpecDay == InitDay /\ [][NextDay]_vars

\* the settlement amounts of the client's CLEARED clearings, summed
ClearedAmount(clientID) ==
    LET S == {i \in 1..Len(clearings) :
                /\ clearings[i].ClearingStatus = "CLEARED"
                /\ \E e \in 1..Len(executions) :
                      /\ executions[e].ExecutionID = clearings[i].TradeID
                      /\ OrderOf(executions[e]) # 0
                      /\ orders[OrderOf(executions[e])].ClientID = clientID}
    IN  SumOver(S, [i \in S |-> clearings[i].SettlementAmount])

\* C34: within one UTC day, each trade cleared at most once, the settlement
\* amounts of a client's CLEARED clearings sum to at most dailyTradingLimit,
\* whatever the interleaving of executions and of concurrent clearings.
C34_ClearedWithinDailyLimit ==
    \A clientID \in Clients : ClearedAmount(clientID) <= dailyTradingLimit

\* every order of the day is executed, one more trade than at the start of the
\* day is CLEARED and a later one was refused
C34_Witness ==
    /\ Len(executions) = MaxDayTrades
    /\ ClearedAmount("c1") = DayCleared * 500000 + 500000
    /\ \E i \in 1..Len(clearings) : clearings[i].ClearingStatus = "FAILED"

-----------------------------------------------------------------------------
\* a step that wrote a clearing or a netting row: the writes of ClearTrade
ClearTradeWrote == clearings' # clearings \/ nettings' # nettings

\* C35: ClearTrade creates, updates and deletes no order, execution, fill,
\* idempotency record or settlement, so the daily net position and the daily
\* trading volume gates 3 and 4 read are the same after it as before.
C35_ClearTradeFrame ==
    [][ClearTradeWrote =>
          /\ UNCHANGED <<orders, executions, idempotency, settlements>>
          /\ \A clientID \in Clients :
                /\ GetDailyNetPosition(clientID)' = GetDailyNetPosition(clientID)
                /\ GetDailyTradingVolume(clientID)' = GetDailyTradingVolume(clientID)]_vars

\* a trade was cleared and its client has a daily volume for the gates to read
C35_Witness ==
    /\ \E i \in 1..Len(clearings) : clearings[i].ClearingStatus = "CLEARED"
    /\ \E clientID \in Clients : GetDailyTradingVolume(clientID) > 0

-----------------------------------------------------------------------------
\* the trade's own settlement amount, as processClearingCalculations sets it
OwnSettlement(execution) ==
    MulDiv(execution.AveragePrice.num, execution.TotalQuantity,
           execution.AveragePrice.den)

\* C36: when the trades of the window net to a net amount of zero, the net
\* margin is zero and ClearTrade refuses the trade at the margin gate and
\* stores a FAILED clearing and no netting, although the trade's own settlement
\* amount is positive and within the position limit.
C36_ZeroNetFailsMarginGate ==
    \A e \in 1..Len(executions) :
        LET execution == executions[e]
            n == Len(clearings) + 1
            net == calculateTradeNetting(orders[OrderOf(execution)], n)
            r == ClearTradeResult(execution.ExecutionID, "")
        IN  (/\ net.err = ""
             /\ net.netting.NetAmount = 0
             /\ OwnSettlement(execution) > 0
             /\ OwnSettlement(execution) <= positionLimit)
            => /\ net.netting.NetMargin = 0
               /\ r.gate = "invalid margin requirement"
               /\ r.err # ""
               /\ Len(r.clearings) = n
               /\ r.clearings[n].ClearingStatus = "FAILED"
               /\ r.clearings[n].TradeID = execution.ExecutionID
               /\ r.clearings[n].SettlementAmount = OwnSettlement(execution)
               /\ r.nettings = nettings

\* a BUY and an equal SELL at one price share the window; the clearing of one
\* of them is stored FAILED with margin zero and a settlement amount within
\* the position limit
C36_Witness ==
    /\ Len(executions) = 2
    /\ executions[1].Side # executions[2].Side
    /\ (calculateTradeNetting(orders[1], 1)).netting.NetAmount = 0
    /\ \E i \in 1..Len(clearings) :
          /\ clearings[i].ClearingStatus = "FAILED"
          /\ clearings[i].MarginRequired = 0
          /\ clearings[i].SettlementAmount > 0
          /\ clearings[i].SettlementAmount <= positionLimit
    /\ nettings = <<>>

-----------------------------------------------------------------------------
(* ExecuteOrder over a store whose statements can fail: the order lookup, the
   transaction that stores the execution with its idempotency record, or the
   order update returns a database error *)

ExecuteOrderFaults == {"", "GetOrder", "CreateExecutionWithIdempotency", "UpdateOrder"}

ExecuteOrderResultOn(orderID, key, draws, fault) ==
    LET r == ExecuteOrderResult(orderID, key, draws)
        same == [executions |-> executions, idempotency |-> idempotency, orders |-> orders]
    IN  IF fault = "GetOrder" /\ ~RecordIsLive(GetIdempotencyRecord(key))
        THEN [err |-> "database error", id |-> NoID, routed |-> FALSE] @@ same
        ELSE IF fault = "CreateExecutionWithIdempotency" /\ r.routed /\ r.err = ""
        \* the transaction is rolled back
        THEN [err |-> "database error", id |-> NoID, routed |-> TRUE] @@ same
        ELSE IF fault = "UpdateOrder" /\ r.routed /\ r.err = ""
        \* the transaction is committed, the order row is not written
        THEN [err |-> "database error", id |-> NoID, routed |-> TRUE,
              executions |-> r.executions, idempotency |-> r.idempotency,
              orders |-> orders]
        ELSE r

ExecuteOrderOn(orderID, key, draws, fault) ==
    LET r == ExecuteOrderResultOn(orderID, key, draws, fault)
    IN  /\ Len(r.executions) <= MaxExecutions
        /\ executions' = r.executions
        /\ idempotency' = r.idempotency
        /\ orders' = r.orders
        /\ UNCHANGED <<clearings, nettings, settlements, now, ticks, calls, rt, vc, proc>>

NextExecFault ==
    \/ \E in \in OrderInputs, key \in Keys : CreateOrder(in, key)
    \/ \E orderID \in OrderIDs, key \in Keys, draws \in PipelineDraws :
          \E fault \in ExecuteOrderFaults : ExecuteOrderOn(orderID, key, draws, fault)
    \/ AdvanceTime

SpecExecFault == Init /\ [][NextExecFault]_vars

\* C37: ExecuteOrder leaves the store as it was whenever it returns an error:
\* no execution, fill or idempotency record of the call remains and the order
\* keeps its status.
C37_ErrorLeavesStore ==
    \A orderID \in OrderIDs, key \in Keys, draws \in PipelineDraws :
        \A fault \in ExecuteOrderFaults :
            LET r == ExecuteOrderResultOn(orderID, key, draws, fault)
            IN  r.err # "" => /\ r.executions = executions
                              /\ r.idempotency = idempotency
                              /\ r.orders = orders

-----------------------------------------------------------------------------
(* One order executed under several idempotency keys: the order is created under
   one key, the execute requests carry keys of their own *)

ExecuteKeys == {"k2", "k3"}

NextRepeat ==
    \/ \E in \in OrderInputs : CreateOrder(in, "k1")
    \/ \E orderID \in OrderIDs, key \in ExecuteKeys, draws \in ExecutionDraws :
          ExecuteOrder(orderID, key, draws)
    \/ AdvanceTime

SpecRepeat == Init /\ [][NextRepeat]_vars

ExecutionsOf(orderID) ==
    {e \in 1..Len(executions) : executions[e].OrderID = orderID}

\* C38: an order is executed at most once: whatever the keys of the
\* ExecuteOrder calls, the store holds at most one execution per order, and a
\* call for an order that is already FILLED does not route it again.
C38_ExecutedAtMostOnce ==
    /\ \A o \in 1..Len(orders) : Cardinality(ExecutionsOf(orders[o].OrderID)) <= 1
    /\ \A o \in 1..Len(orders), key \in ExecuteKeys, draws \in ExecutionDraws :
          orders[o].Status = "FILLED"
             => ~(ExecuteOrderResult(orders[o].OrderID, key, draws)).routed

-----------------------------------------------------------------------------
\* the router's books agree: what is executed and what remains make the order
FillsWithinOrder ==
    /\ rt.st.remainingQty + rt.st.totalExecutedQty = rt.order.Quantity
    /\ rt.st.totalExecutedQty >= 0
    /\ rt.order.Quantity > 0 =>
          /\ rt.st.remainingQty >= 0
          /\ rt.st.totalExecutedQty <= rt.order.Quantity
    /\ rt.order.Quantity <= 0 => rt.st.fills = <<>>
    /\ \A f \in 1..Len(rt.st.fills) : rt.st.fills[f].Quantity > 0
    /\ (rt.pc = "done" /\ rt.err = "") =>
          /\ rt.execution.TotalQuantity = rt.st.totalExecutedQty
          /\ rt.execution.TotalQuantity <= rt.order.Quantity

\* an attempt that filled: the fill is the whole remainder or the exchange's
\* liquidity share of it
FillWithinRemainder ==
    Len(rt'.st.fills) > Len(rt.st.fills) =>
        LET fill == rt'.st.fills[Len(rt'.st.fills)]
        IN  /\ Len(rt'.st.fills) = Len(rt.st.fills) + 1
            /\ fill.Quantity > 0
            /\ fill.Quantity <= rt.st.remainingQty
            /\ \/ fill.Quantity = rt.st.remainingQty
               \/ \E x \in 1..Len(mockExchanges) :
                     /\ fill.ExchangeID = mockExchanges[x].ID
                     /\ fill.Quantity
                           = (rt.st.remainingQty * mockExchanges[x].LiquidityFactor) \div 10
            /\ rt'.st.remainingQty = rt.st.remainingQty - fill.Quantity
            /\ rt'.st.remainingQty >= 0

\* C39: during routing each fill's quantity is positive and at most the
\* quantity remaining at its attempt, the whole remainder or the liquidity
\* share of it; the execution's total quantity is at most the quantity the
\* order asked for and the remaining quantity never goes below zero.
C39_FillsWithinRemainder == []FillsWithinOrder /\ [][FillWithinRemainder]_vars

\* an order routed to its end with a partial fill followed by another fill
C39_Witness ==
    /\ rt.pc = "done"
    /\ rt.err = ""
    /\ Len(rt.st.fills) >= 2
    /\ rt.st.fills[1].Quantity < rt.order.Quantity
    /\ rt.execution.TotalQuantity <= rt.order.Quantity

-----------------------------------------------------------------------------
\* the keys whose stored record is past its expiry time
ExpiredKeys ==
    {key \in Keys : \E i \in 1..Len(idempotency) :
                       /\ idempotency[i].IdempotencyKey = key
                       /\ idempotency[i].ExpiresAt < now}

\* C40: a key whose record has expired is never accepted again: every
\* CreateOrder and every ExecuteOrder call that carries it returns an error and
\* creates no order, execution or idempotency record.
C40_ExpiredKeyRefused ==
    \A key \in ExpiredKeys :
        /\ \A in \in OrderInputs :
              LET r == CreateOrderResult(in, key)
              IN  /\ r.err # ""
                  /\ r.orders = orders
                  /\ r.idempotency = idempotency
        /\ \A orderID \in OrderIDs, draws \in ExecutionDraws :
              LET r == ExecuteOrderResult(orderID, key, draws)
              IN  /\ r.err # ""
                  /\ r.executions = executions
                  /\ r.idempotency = idempotency
                  /\ r.orders = orders

====
